---- MODULE Spec2Model ----
(***************************************************************************)
(* A model of RedditVideoMakerBot's selection, segmentation and timeline   *)
(* code:                                                                   *)
(*   - utils/posttextparser.py   posttextparser        (SpecParser)        *)
(*   - video_creation/final_video.py  make_final_video (SpecTimeline)      *)
(*   - reddit/subreddit.py  the suitability predicates  (SpecSuit)         *)
(*   - reddit/subreddit.py  the BFS for a comment  (SpecBfs, SpecBfsFair)  *)
(*   - reddit/subreddit.py get_subreddit_threads, main.py main (SpecMain)  *)
(*   - utils/subreddit.py  get_subreddit_undone        (SpecUndone)        *)
(*   - reddit/subreddit.py  two processes on used_comments.json (SpecRace) *)
(*   - TTS/engine_wrapper.py  TTSEngine.run               (SpecTts)        *)
(*   - reddit/subreddit.py  the retry loop, pass by pass  (SpecRetry)      *)
(* Each specification drives its own group of variables and leaves the     *)
(* other groups at their initial value.                                    *)
(***************************************************************************)
EXTENDS Integers, Sequences, FiniteSets, TLC

VARIABLES
    \* ---- posttextparser ----
    p_pc,             \* "loop" while the for-loop over doc.sents runs, "done" after return
    max_words,        \* settings.config["settings"]["max_words_per_segment"]
    sents,            \* the sanitized sentences the loop has consumed, in order
    parsed_content,   \* the list posttextparser builds and returns
    unit_sent,        \* for each unit of parsed_content, the index of its sentence
    \* ---- make_final_video, the segment timeline ----
    tl_pc,            \* "title", "unit" (at the for over units), "chunk" (at the for over chunks), "done"
    tl_mode,          \* "storymode1" or "comment_story": which branch builds the timeline
    parsed_story_content,  \* reddit_obj["parsed_story_content"]: per unit, its visual chunks
    title_audio_duration,
    current_time,
    global_visual_chunk_idx,
    seg_j,            \* j of `for j, audio_segment_info in enumerate(...)`
    vc_idx,
    audio_segment_duration,
    time_per_visual_chunk,
    slots,            \* one record per chunk the inner loop has handled, in order
    unit_log,         \* one record per unit the outer loop has finished
    \* ---- the suitability predicates ----
    s_pc,             \* "ready" before a predicate is called, "evaluated" after
    LOADED_SWEAR_WORDS,   \* the module's blocked-term list
    s_comment,        \* the PRAW comment handed to the predicate
    s_used,           \* used_comment_ids
    s_cfg,            \* settings_config["reddit"]["thread"]
    s_verdict,        \* what the predicate printed and returned
    \* ---- _find_first_suitable_praw_comment_via_bfs ----
    b_pc,             \* "loop" at the while, "done" after the return
    MAX_COMMENTS_TO_SCAN,
    b_used,           \* used_comment_ids
    forest,           \* the nodes of the comment tree fetched so far
    queue,
    comments_actually_checked,
    processed_tree_nodes,
    b_result,         \* the value returned: a comment's id, or None
    b_log,            \* the items popped, in order, with the verdict on each
    b_enq,            \* the items put in the queue, in order
    b_known,          \* how many items the lists fetched so far mention
    b_edges,          \* how many entries the lists fetched so far have
    \* a run of main
    m_pc,                         \* "start", "picked", "returned", "ended"
    used_comments_json,           \* video_creation/data/used_comments.json
    unsuitable_threads_json,      \* video_creation/data/unsuitable_threads.json
    videos_json,                  \* video_creation/data/videos.json
    config,                       \* settings.config of the run
    submission,                   \* the id of the submission chosen
    used_comments_data,           \* the dict loaded from used_comments.json
    unsuitable_thread_ids,        \* the list loaded from unsuitable_threads.json
    submission_was_already_done,
    content,                      \* what get_subreddit_threads returned
    m_mode,                       \* the selection mode of the run
    m_outcome,                    \* how the last run of main ended
    m_loaded,                     \* the ids the file listed for the thread at load
    m_selected,                   \* the (thread, comment) pairs earlier runs returned
    m_post_id,                    \* the POST_ID the run was called with, or None
    m_all_used,                   \* the thread had comments, each one already used
    m_start,                      \* the three files as the run found them
    \* ---- get_subreddit_undone, call by call ----
    u_pc,             \* "call" at the start of a call, "done" after the last return
    u_submissions,    \* the listing the current call iterates
    u_times_checked,  \* times_checked of the current call
    u_unsuitable,     \* the list unsuitable_thread_ids, shared by the calls
    u_done_videos,    \* the ids of the entries of videos.json
    u_storymode,      \* settings.config["settings"]["storymode"]
    u_quiet,          \* the submissions with num_comments <= min_comments
    u_requested,      \* the time_filter and limit of each subreddit.top call, in order
    u_result,         \* what the first call returns: a submission's id, or None
    \* ---- two runs of get_subreddit_threads at the same time ----
    r_pc,             \* per run: "start", "loaded" (used_comments.json read), "done"
    r_file,           \* video_creation/data/used_comments.json, which they share
    r_thread,         \* per run: the id of the submission chosen
    r_data,           \* per run: used_comments_data
    r_selected,       \* per run: the comment ids of the content returned
    \* ---- TTSEngine.run ----
    t_pc,             \* "title", the branch of run under way, "out" past the branches, "returned"
    t_mode,           \* "standard", "storymode0", "storymode1" or "comment_story"
    t_comments,       \* reddit_object["comments"]: per comment, the clips call_tts renders for it
    t_segments,       \* len(reddit_object["audio_segments"])
    t_next,           \* the position of enumerate in the loop under way
    self_max_length,
    self_length,
    self_last_clip_length,
    idx,
    actual_segments_processed,
    final_idx,        \* the second value run returns
    t_clips,          \* the clips call_tts rendered, in order
    t_uncounted,      \* the clips of t_clips whose duration is no longer in self.length
    \* ---- the retry loop of get_subreddit_threads, pass by pass ----
    l_pc,             \* "loop" at the for over range(max_retries), "done" after it
    l_config,         \* settings.config of the call
    l_threads,        \* threads: the listing handed to get_subreddit_undone
    l_passes,         \* the passes of the loop made so far
    l_unsuitable,     \* the list unsuitable_thread_ids
    l_file,           \* video_creation/data/unsuitable_threads.json
    l_done_videos,    \* the ids of the entries of videos.json
    l_blocked,        \* the submissions whose title holds a blocked term
    l_obtained,       \* what get_subreddit_undone returned in each pass, in order
    l_saved,          \* the passes that called _save_unsuitable_thread_id
    l_submission      \* submission after the loop: an id, or None

parserVars == <<p_pc, max_words, sents, parsed_content, unit_sent>>

tlVars == <<tl_pc, tl_mode, parsed_story_content, title_audio_duration, current_time,
            global_visual_chunk_idx, seg_j, vc_idx, audio_segment_duration,
            time_per_visual_chunk, slots, unit_log>>

suitVars == <<s_pc, LOADED_SWEAR_WORDS, s_comment, s_used, s_cfg, s_verdict>>

bfsVars == <<b_pc, MAX_COMMENTS_TO_SCAN, b_used, forest, queue, comments_actually_checked,
             processed_tree_nodes, b_result, b_log, b_enq, b_known, b_edges>>

mainVars == <<m_pc, used_comments_json, unsuitable_threads_json, videos_json, config,
              submission, used_comments_data, unsuitable_thread_ids,
              submission_was_already_done, content, m_mode, m_outcome, m_loaded,
              m_selected, m_post_id, m_all_used, m_start>>

undoneVars == <<u_pc, u_submissions, u_times_checked, u_unsuitable, u_done_videos,
                u_storymode, u_quiet, u_requested, u_result>>

raceVars == <<r_pc, r_file, r_thread, r_data, r_selected>>

retryVars == <<l_pc, l_config, l_threads, l_passes, l_unsuitable, l_file, l_done_videos,
               l_blocked, l_obtained, l_saved, l_submission>>

ttsVars == <<t_pc, t_mode, t_comments, t_segments, t_next, self_max_length, self_length,
             self_last_clip_length, idx, actual_segments_processed, final_idx, t_clips,
             t_uncounted>>

vars == <<parserVars, tlVars, suitVars, bfsVars, mainVars, undoneVars, raceVars, ttsVars, retryVars>>

(***************************************************************************)
(* Python strings.  A str is a sequence of runs; a run is n >= 1 copies of *)
(* a whitespace character (sp = TRUE) or of a non-whitespace character.    *)
(* No two neighbouring runs are of the same kind, so that equal strings    *)
(* are equal sequences.                                                    *)
(***************************************************************************)
Run(sp, n) == [sp |-> sp, n |-> n]

RECURSIVE StrLen(_)
StrLen(s) == IF s = <<>> THEN 0 ELSE Head(s).n + StrLen(Tail(s))

\* str.split(): the maximal runs of non-whitespace characters, in order.
RECURSIVE Split(_)
Split(s) ==
    IF s = <<>> THEN <<>>
    ELSE IF Head(s).sp THEN Split(Tail(s))
    ELSE <<  <<Head(s)>>  >> \o Split(Tail(s))

\* " ".join(words)
RECURSIVE Join(_)
Join(words) ==
    IF words = <<>> THEN <<>>
    ELSE IF Len(words) = 1 THEN Head(words)
    ELSE Head(words) \o <<Run(TRUE, 1)>> \o Join(Tail(words))

\* s[:k]
RECURSIVE Prefix(_, _)
Prefix(s, k) ==
    IF s = <<>> \/ k <= 0 THEN <<>>
    ELSE IF Head(s).n <= k THEN <<Head(s)>> \o Prefix(Tail(s), k - Head(s).n)
    ELSE <<Run(Head(s).sp, k)>>

RECURSIVE Flatten(_)
Flatten(ss) == IF ss = <<>> THEN <<>> ELSE Head(ss) \o Flatten(Tail(ss))

(***************************************************************************)
(* posttextparser                                                          *)
(***************************************************************************)
TIKTOK_TTS_CHAR_LIMIT == 250

\* Lines 46-54: one pass of the for-loop over words_of_sentence.  st holds
\* sentence_audio_chunks_to_process, current_chunk_words, current_chunk_len.
PackWordDropsFlush(st, word) ==
    IF st.len + StrLen(word) + (IF st.cur # <<>> THEN 1 ELSE 0) > TIKTOK_TTS_CHAR_LIMIT
    THEN [chunks |-> st.chunks, cur |-> <<word>>, len |-> StrLen(word)]
    ELSE [chunks |-> st.chunks,
          cur    |-> Append(st.cur, word),
          len    |-> st.len + StrLen(word) + (IF Len(st.cur) + 1 > 1 THEN 1 ELSE 0)]

PackWordNoSeparator(st, word) ==
    IF st.len + StrLen(word) > TIKTOK_TTS_CHAR_LIMIT
    THEN [chunks |-> IF st.cur # <<>> THEN Append(st.chunks, Join(st.cur)) ELSE st.chunks,
          cur    |-> <<word>>,
          len    |-> StrLen(word)]
    ELSE [chunks |-> st.chunks,
          cur    |-> Append(st.cur, word),
          len    |-> st.len + StrLen(word)]

PackWordResetsLength(st, word) ==
    IF st.len + StrLen(word) + (IF st.cur # <<>> THEN 1 ELSE 0) > TIKTOK_TTS_CHAR_LIMIT
    THEN [chunks |-> IF st.cur # <<>> THEN Append(st.chunks, Join(st.cur)) ELSE st.chunks,
          cur    |-> <<word>>,
          len    |-> 0]
    ELSE [chunks |-> st.chunks,
          cur    |-> Append(st.cur, word),
          len    |-> st.len + StrLen(word) + (IF Len(st.cur) + 1 > 1 THEN 1 ELSE 0)]

PackWord(st, word) ==
    IF st.len + StrLen(word) + (IF st.cur # <<>> THEN 1 ELSE 0) > TIKTOK_TTS_CHAR_LIMIT
    THEN [chunks |-> IF st.cur # <<>> THEN Append(st.chunks, Join(st.cur)) ELSE st.chunks,
          cur    |-> <<word>>,
          len    |-> StrLen(word)]
    ELSE [chunks |-> st.chunks,
          cur    |-> Append(st.cur, word),
          len    |-> st.len + StrLen(word) + (IF Len(st.cur) + 1 > 1 THEN 1 ELSE 0)]

RECURSIVE PackLoop(_, _)
PackLoop(st, words) ==
    IF words = <<>> THEN st ELSE PackLoop(PackWord(st, Head(words)), Tail(words))

\* Lines 41-64: sentence_audio_chunks_to_process for one sanitized sentence.
AudioChunks(text) ==
    IF StrLen(text) > TIKTOK_TTS_CHAR_LIMIT
    THEN LET st     == PackLoop([chunks |-> <<>>, cur |-> <<>>, len |-> 0], Split(text))
             packed == IF st.cur # <<>> THEN Append(st.chunks, Join(st.cur)) ELSE st.chunks
         IN  IF packed = <<>> /\ text # <<>>
             THEN <<Prefix(text, TIKTOK_TTS_CHAR_LIMIT)>>
             ELSE packed
    ELSE <<text>>

\* Lines 76-83: the greedy packing of words into visual chunks of n words.
RECURSIVE VisualLoopOffByOne(_, _, _, _)
VisualLoopOffByOne(words, cur, chunks, n) ==
    IF words = <<>>
    THEN IF cur # <<>> THEN Append(chunks, Join(cur)) ELSE chunks
    ELSE LET c == Append(cur, Head(words))
         IN  IF Len(c) > n
             THEN VisualLoopOffByOne(Tail(words), <<>>, Append(chunks, Join(c)), n)
             ELSE VisualLoopOffByOne(Tail(words), c, chunks, n)

RECURSIVE VisualLoop(_, _, _, _)
VisualLoop(words, cur, chunks, n) ==
    IF words = <<>>
    THEN IF cur # <<>> THEN Append(chunks, Join(cur)) ELSE chunks
    ELSE LET c == Append(cur, Head(words))
         IN  IF Len(c) >= n
             THEN VisualLoop(Tail(words), <<>>, Append(chunks, Join(c)), n)
             ELSE VisualLoop(Tail(words), c, chunks, n)

\* Lines 70-85: current_sentence_visual_chunks of one audio chunk.
VisualChunks(audio_chunk_text, n) ==
    IF n > 0
    THEN VisualLoop(Split(audio_chunk_text), <<>>, <<>>, n)
    ELSE <<audio_chunk_text>>

\* Lines 66-91: the units appended for the audio chunks of one sentence.
RECURSIVE UnitsOf(_, _)
UnitsOf(chunks, n) ==
    IF chunks = <<>> THEN <<>>
    ELSE LET a  == Head(chunks)
             vc == VisualChunks(a, n)
         IN  (IF a = <<>> \/ vc = <<>>
              THEN <<>>
              ELSE << [audio_text |-> a, visual_chunks |-> vc] >>)
             \o UnitsOf(Tail(chunks), n)

\* Lines 34-91: one pass of the for-loop over doc.sents, on the sanitized sentence.
SentenceUnits(sanitized_full_sentence_text, n) ==
    IF sanitized_full_sentence_text = <<>>
    THEN <<>>
    ELSE UnitsOf(AudioChunks(sanitized_full_sentence_text), n)

(***************************************************************************)
(* The sentences the parser is run on.                                     *)
(***************************************************************************)
MaxRuns == 5          \* runs of characters in the whole text
MaxSents == 2         \* sentences of the text
MaxWordsPerSegment == 2

WordLens == {1, 124, 125, TIKTOK_TTS_CHAR_LIMIT + 1}
SpaceLens == {1, TIKTOK_TTS_CHAR_LIMIT + 1}
Runs == {Run(FALSE, n) : n \in WordLens} \cup {Run(TRUE, n) : n \in SpaceLens}

\* The strings of exactly k runs.
Texts(k) == {s \in [1..k -> Runs] : \A i \in 1..(k-1) : s[i].sp # s[i+1].sp}

RECURSIVE RunsUsed(_)
RunsUsed(ss) == IF ss = <<>> THEN 0 ELSE Len(Head(ss)) + RunsUsed(Tail(ss))

ParserInit ==
    /\ p_pc = "loop"
    /\ max_words \in 0..MaxWordsPerSegment
    /\ sents = <<>>
    /\ parsed_content = <<>>
    /\ unit_sent = <<>>

ParserIdle ==
    /\ p_pc = "off"
    /\ max_words = 0
    /\ sents = <<>>
    /\ parsed_content = <<>>
    /\ unit_sent = <<>>

\* The body of `for sent in doc.sents` for the next sentence of the text.
ParseSentence ==
    /\ p_pc = "loop"
    /\ Len(sents) < MaxSents
    /\ \E k \in 0..(MaxRuns - RunsUsed(sents)) : \E text \in Texts(k) :
          LET units == SentenceUnits(text, max_words) IN
          /\ sents' = Append(sents, text)
          /\ parsed_content' = parsed_content \o units
          /\ unit_sent' = unit_sent \o [i \in 1..Len(units) |-> Len(sents) + 1]
    /\ UNCHANGED <<p_pc, max_words>>
    /\ UNCHANGED <<tlVars, suitVars, bfsVars, mainVars, undoneVars, raceVars, ttsVars, retryVars>>

\* `return parsed_content`
ParseReturn ==
    /\ p_pc = "loop"
    /\ p_pc' = "done"
    /\ UNCHANGED <<max_words, sents, parsed_content, unit_sent>>
    /\ UNCHANGED <<tlVars, suitVars, bfsVars, mainVars, undoneVars, raceVars, ttsVars, retryVars>>

ParserNext == ParseSentence \/ ParseReturn

(***************************************************************************)
(* Claims about posttextparser                                             *)
(***************************************************************************)
WordsOfTexts(ts) == Flatten([i \in 1..Len(ts) |-> Split(ts[i])])

AudioTexts == [i \in 1..Len(parsed_content) |-> parsed_content[i].audio_text]

\* The audio_text of the units emitted for sentence k, in list order.
RECURSIVE AudioOfSentence(_, _)
AudioOfSentence(k, i) ==
    IF i > Len(parsed_content) THEN <<>>
    ELSE (IF unit_sent[i] = k THEN <<parsed_content[i].audio_text>> ELSE <<>>)
         \o AudioOfSentence(k, i + 1)

LongSentence(k) == StrLen(sents[k]) > TIKTOK_TTS_CHAR_LIMIT

\* C5: with max_words_per_segment = 0, the words of the audio_text of the
\* returned units, concatenated in list order, are exactly the words of the
\* sanitized sentences in sentence order.
C5_WordsRoundTrip ==
    max_words = 0 => WordsOfTexts(AudioTexts) = WordsOfTexts(sents)

\* C5's case: two sentences were parsed, one of them long enough to be cut in
\* several units.
C5_Witness ==
    /\ max_words = 0
    /\ p_pc = "done"
    /\ Len(sents) = 2
    /\ \E k \in 1..2 : LongSentence(k) /\ Len(AudioOfSentence(k, 1)) >= 2
    /\ Len(WordsOfTexts(sents)) >= 3

\* C6 as stated: every audio_text emitted for a sentence longer than the limit
\* is at most 250 characters long, and no word is split across the pieces.
C6_AsStated ==
    \A k \in 1..Len(sents) :
        LongSentence(k) =>
            /\ \A i \in 1..Len(parsed_content) :
                  unit_sent[i] = k =>
                      StrLen(parsed_content[i].audio_text) <= TIKTOK_TTS_CHAR_LIMIT
            /\ WordsOfTexts(AudioOfSentence(k, 1)) = Split(sents[k])

\* C6, amended: every audio_text emitted for a sentence longer than the limit
\* is at most 250 characters long unless it is one single word that is itself
\* longer than 250 characters, and no word is split across the pieces.
C6_PiecesWithinLimit ==
    \A k \in 1..Len(sents) :
        LongSentence(k) =>
            /\ \A i \in 1..Len(parsed_content) :
                  unit_sent[i] = k =>
                      LET a == parsed_content[i].audio_text IN
                      \/ StrLen(a) <= TIKTOK_TTS_CHAR_LIMIT
                      \/ Split(a) = <<a>>
            /\ WordsOfTexts(AudioOfSentence(k, 1)) = Split(sents[k])

\* C6's case: a long sentence was cut in two or more pieces, one of them of
\* several words that fill the limit exactly.
C6_Witness ==
    \E k \in 1..Len(sents) :
        /\ LongSentence(k)
        /\ Len(AudioOfSentence(k, 1)) >= 2
        /\ \E i \in 1..Len(parsed_content) :
              /\ unit_sent[i] = k
              /\ StrLen(parsed_content[i].audio_text) = TIKTOK_TTS_CHAR_LIMIT
              /\ Len(Split(parsed_content[i].audio_text)) = 2

Oversized(word) == StrLen(word) > TIKTOK_TTS_CHAR_LIMIT

\* C24: in a sentence longer than the limit, a word that is itself longer
\* than 250 characters is the audio_text of a unit of its own, whole and not
\* cut, the words before it and after it are in other units, and the words
\* of the sentence's units, in order, are the words of the sentence.
C24_OversizedWordIsItsOwnUnit ==
    \A k \in 1..Len(sents) :
        LongSentence(k) =>
            LET pieces == AudioOfSentence(k, 1) IN
            /\ WordsOfTexts(pieces) = Split(sents[k])
            /\ \A i \in 1..Len(pieces) :
                  (\E w \in 1..Len(Split(pieces[i])) : Oversized(Split(pieces[i])[w]))
                      => /\ Len(Split(pieces[i])) = 1
                         /\ pieces[i] = Split(pieces[i])[1]

\* C24's case: a sentence of three words whose second word is longer than
\* the limit was cut in three units.
C24_Witness ==
    \E k \in 1..Len(sents) :
        /\ Len(Split(sents[k])) = 3
        /\ Oversized(Split(sents[k])[2])
        /\ ~Oversized(Split(sents[k])[1])
        /\ ~Oversized(Split(sents[k])[3])
        /\ Len(AudioOfSentence(k, 1)) = 3
        /\ AudioOfSentence(k, 1)[2] = Split(sents[k])[2]

ChunkWords(u) == WordsOfTexts(u.visual_chunks)

\* C7: every returned unit has a non-empty list of visual chunks whose words,
\* in order, are the words of its audio_text; with max_words_per_segment = n > 0
\* every chunk has at most n words and every chunk but the last exactly n; with
\* max_words_per_segment = 0 the list is the single chunk audio_text.
C7_VisualChunks ==
    \A i \in 1..Len(parsed_content) :
        LET u == parsed_content[i]
            m == Len(u.visual_chunks)
        IN  /\ m >= 1
            /\ ChunkWords(u) = Split(u.audio_text)
            /\ max_words > 0 =>
                  /\ \A c \in 1..m : Len(Split(u.visual_chunks[c])) <= max_words
                  /\ \A c \in 1..(m - 1) : Len(Split(u.visual_chunks[c])) = max_words
            /\ max_words = 0 => u.visual_chunks = <<u.audio_text>>

\* C7's case: a unit of three words cut in chunks of two words and one word.
C7_Witness ==
    /\ max_words = 2
    /\ \E i \in 1..Len(parsed_content) :
          /\ Len(Split(parsed_content[i].audio_text)) = 3
          /\ Len(parsed_content[i].visual_chunks) = 2
          /\ Len(Split(parsed_content[i].visual_chunks[2])) = 1

(***************************************************************************)
(* make_final_video: the timeline of caption windows.                      *)
(* Times are exact rationals [n, d] in lowest terms (the code computes     *)
(* them in floating point).                                                *)
(***************************************************************************)
RECURSIVE Gcd(_, _)
Gcd(a, b) == IF b = 0 THEN a ELSE Gcd(b, a % b)

Rat(n, d) == LET g == Gcd(n, d) IN [n |-> n \div g, d |-> d \div g]
RInt(n) == [n |-> n, d |-> 1]
RAdd(a, b) == Rat(a.n * b.d + b.n * a.d, a.d * b.d)
RDivInt(a, k) == Rat(a.n, a.d * k)

MaxUnits == 2         \* narration units of parsed_story_content
MaxChunks == 2        \* visual chunks of one unit
MaxDur == 2           \* a probed duration, in seconds

\* The unit lists posttextparser can hand over: every unit has at least one
\* visual chunk; chunk <<j, c>> is chunk c of unit j, and <<"text", j>> its
\* audio_text.
UnitOfChunks(j, k) ==
    [audio_text |-> <<"text", j>>, visual_chunks |-> [c \in 1..k |-> <<j, c>>]]
StoryContents ==
    UNION { { [j \in 1..n |-> UnitOfChunks(j - 1, ks[j])] : ks \in [1..n -> 1..MaxChunks] }
            : n \in 0..MaxUnits }

TimelineInit ==
    /\ tl_pc = "title"
    /\ tl_mode \in {"storymode1", "comment_story"}
    /\ parsed_story_content \in StoryContents
    /\ title_audio_duration = RInt(0)
    /\ current_time = RInt(0)
    /\ global_visual_chunk_idx = 0
    /\ seg_j = 0
    /\ vc_idx = 0
    /\ audio_segment_duration = RInt(0)
    /\ time_per_visual_chunk = RInt(0)
    /\ slots = <<>>
    /\ unit_log = <<>>

TimelineIdle ==
    /\ tl_pc = "off"
    /\ tl_mode = "off"
    /\ parsed_story_content = <<>>
    /\ title_audio_duration = RInt(0)
    /\ current_time = RInt(0)
    /\ global_visual_chunk_idx = 0
    /\ seg_j = 0
    /\ vc_idx = 0
    /\ audio_segment_duration = RInt(0)
    /\ time_per_visual_chunk = RInt(0)
    /\ slots = <<>>
    /\ unit_log = <<>>

\* Lines 310 and 319: current_time = 0; current_time += title_audio_duration.
ClockAfterTitleStaysZero(td) == RInt(0)

ClockAfterTitle(td) == RAdd(RInt(0), td)

\* Lines 323 and 370: global_visual_chunk_idx = 0.
ImageIndexAtStartSkipsOne == IF tl_mode = "comment_story" THEN 1 ELSE 0

ImageIndexAtStart == 0

\* Lines 310-319: the title overlay; the clock starts at the title's duration.
TitleOverlay ==
    /\ tl_pc = "title"
    /\ \E td \in 1..MaxDur :
          /\ title_audio_duration' = RInt(td)
          /\ current_time' = ClockAfterTitle(RInt(td))
    /\ global_visual_chunk_idx' = ImageIndexAtStart
    /\ seg_j' = 0
    /\ tl_pc' = "unit"
    /\ UNCHANGED <<tl_mode, parsed_story_content, vc_idx, audio_segment_duration,
                   time_per_visual_chunk, slots, unit_log>>
    /\ UNCHANGED <<parserVars, suitVars, bfsVars, mainVars, undoneVars, raceVars, ttsVars, retryVars>>

\* The head of the loop over units: probe audio_segment-{j}.mp3, count the
\* unit's chunks, skip a unit without chunks, divide the duration.
SegmentUnit(mode) ==
    /\ tl_pc = "unit"
    /\ tl_mode = mode
    /\ seg_j < Len(parsed_story_content)
    /\ \E d \in 1..MaxDur :
          LET num_visual_chunks == Len(parsed_story_content[seg_j + 1].visual_chunks) IN
          /\ audio_segment_duration' = RInt(d)
          /\ IF num_visual_chunks = 0
             THEN /\ seg_j' = seg_j + 1
                  /\ UNCHANGED <<tl_pc, time_per_visual_chunk, vc_idx>>
             ELSE /\ time_per_visual_chunk' = RDivInt(RInt(d), num_visual_chunks)
                  /\ vc_idx' = 0
                  /\ tl_pc' = "chunk"
                  /\ UNCHANGED seg_j
    /\ UNCHANGED <<tl_mode, parsed_story_content, title_audio_duration, current_time,
                   global_visual_chunk_idx, slots, unit_log>>
    /\ UNCHANGED <<parserVars, suitVars, bfsVars, mainVars, undoneVars, raceVars, ttsVars, retryVars>>

\* The clock after one chunk: both branches of the inner loop advance it by
\* time_per_visual_chunk.
ClockAfterChunkStalls(exists_img) ==
    IF exists_img THEN RAdd(current_time, time_per_visual_chunk) ELSE current_time

ClockAfterChunk(exists_img) == RAdd(current_time, time_per_visual_chunk)

\* The image index after one chunk: lines 341 and 365 (386 and 406 for a
\* comment read as a story) add one in both branches.
ImageIndexStallsOnMissing(exists_img) ==
    IF exists_img THEN global_visual_chunk_idx + 1 ELSE global_visual_chunk_idx

ImageIndexAfterChunk(exists_img) == global_visual_chunk_idx + 1

\* One pass of the loop over the chunks of unit seg_j: a missing image only
\* advances the clock and the image index, an existing one is overlaid
\* between the clock and the clock plus time_per_visual_chunk.
SegmentChunk(mode) ==
    /\ tl_pc = "chunk"
    /\ tl_mode = mode
    /\ LET num_visual_chunks == Len(parsed_story_content[seg_j + 1].visual_chunks) IN
       \E exists_img \in BOOLEAN :
          /\ slots' = Append(slots,
                 [unit    |-> seg_j,
                  chunk   |-> parsed_story_content[seg_j + 1].visual_chunks[vc_idx + 1],
                  img     |-> global_visual_chunk_idx,
                  overlay |-> exists_img,
                  start   |-> current_time,
                  end     |-> ClockAfterChunk(exists_img)])
          /\ current_time' = ClockAfterChunk(exists_img)
          /\ global_visual_chunk_idx' = ImageIndexAfterChunk(exists_img)
          /\ IF vc_idx + 1 < num_visual_chunks
             THEN /\ vc_idx' = vc_idx + 1
                  /\ UNCHANGED <<seg_j, tl_pc, unit_log>>
             ELSE /\ vc_idx' = vc_idx + 1
                  /\ seg_j' = seg_j + 1
                  /\ tl_pc' = "unit"
                  /\ unit_log' = Append(unit_log,
                         [unit |-> seg_j, mp3 |-> seg_j, k |-> num_visual_chunks,
                          d |-> audio_segment_duration])
    /\ UNCHANGED <<tl_mode, parsed_story_content, title_audio_duration,
                   audio_segment_duration, time_per_visual_chunk>>
    /\ UNCHANGED <<parserVars, suitVars, bfsVars, mainVars, undoneVars, raceVars, ttsVars, retryVars>>

\* Lines 321-365: storymode with storymodemethod 1.
StoryUnit == SegmentUnit("storymode1")
StoryChunk == SegmentChunk("storymode1")

\* Lines 367-404: read_first_comment_as_story.
CommentStoryUnit == SegmentUnit("comment_story")
CommentStoryChunk == SegmentChunk("comment_story")

\* The loop over the units is exhausted.
TimelineDone ==
    /\ tl_pc = "unit"
    /\ seg_j = Len(parsed_story_content)
    /\ tl_pc' = "done"
    /\ UNCHANGED <<tl_mode, parsed_story_content, title_audio_duration, current_time,
                   global_visual_chunk_idx, seg_j, vc_idx, audio_segment_duration,
                   time_per_visual_chunk, slots, unit_log>>
    /\ UNCHANGED <<parserVars, suitVars, bfsVars, mainVars, undoneVars, raceVars, ttsVars, retryVars>>

TimelineNext ==
    \/ TitleOverlay
    \/ StoryUnit
    \/ StoryChunk
    \/ CommentStoryUnit
    \/ CommentStoryChunk
    \/ TimelineDone

(***************************************************************************)
(* Claims about the timeline                                               *)
(***************************************************************************)
SlotsOfUnit(j) == SelectSeq(slots, LAMBDA s : s.unit = j)
WindowsOfUnit(j) == SelectSeq(slots, LAMBDA s : s.unit = j /\ s.overlay)

\* The slots (or windows) w are k consecutive ones of length d/k for the
\* chunks of unit j in chunk order, and cover d in all.
LaidOut(w, j, k, d) ==
    /\ Len(w) = k
    /\ \A c \in 1..Len(w) :
          /\ w[c].chunk = <<j, c>>
          /\ w[c].end = RAdd(w[c].start, RDivInt(d, k))
          /\ c > 1 => w[c].start = w[c - 1].end
    /\ Len(w) >= 1 => w[Len(w)].end = RAdd(w[1].start, d)

\* C8 as stated: for every unit with k chunks and duration d exactly k overlay
\* windows are emitted, one per chunk in chunk order, each d/k long, each
\* starting where the previous one ended, d in all.
C8_AsStated ==
    \A n \in 1..Len(unit_log) :
        LET u == unit_log[n] IN LaidOut(WindowsOfUnit(u.unit), u.unit, u.k, u.d)

\* C8, amended: for every unit with k chunks and duration d the loop lays out
\* exactly k slots, one per chunk in chunk order, each d/k long, each starting
\* where the previous one ended, d in all; an overlay window is emitted for a
\* slot exactly when its image exists, so k windows when no image is missing.
C8_SlotsPerUnit ==
    \A n \in 1..Len(unit_log) :
        LET u  == unit_log[n]
            sl == SlotsOfUnit(u.unit)
            w  == WindowsOfUnit(u.unit)
        IN  /\ LaidOut(sl, u.unit, u.k, u.d)
            /\ (\A c \in 1..Len(sl) : sl[c].overlay) => LaidOut(w, u.unit, u.k, u.d)
            /\ \A c \in 1..Len(w) :
                  w[c].end = RAdd(w[c].start, RDivInt(u.d, u.k))

\* C8's case: in the read-comment-as-story branch, a finished unit of two
\* chunks and duration 1, both chunks overlaid.
C8_Witness ==
    /\ tl_mode = "comment_story"
    /\ \E n \in 1..Len(unit_log) :
          /\ unit_log[n].k = 2
          /\ unit_log[n].d = RInt(1)
          /\ Len(WindowsOfUnit(unit_log[n].unit)) = 2

RECURSIVE SumDurations(_)
SumDurations(log) ==
    IF log = <<>> THEN RInt(0) ELSE RAdd(Head(log).d, SumDurations(Tail(log)))

\* C9 as stated, with the windows being the overlays emitted: the clock starts
\* at the title's duration, the first window of unit i+1 starts at the end of
\* the last window of unit i, and the final clock is the title's duration plus
\* all unit durations.
C9_AsStated ==
    /\ (tl_pc # "title" /\ slots = <<>>) => current_time = title_audio_duration
    /\ \A i \in 0..(Len(parsed_story_content) - 2) :
          LET a == WindowsOfUnit(i)
              b == WindowsOfUnit(i + 1)
          IN  (a # <<>> /\ b # <<>>) => b[1].start = a[Len(a)].end
    /\ tl_pc = "done" =>
          current_time = RAdd(title_audio_duration, SumDurations(unit_log))

\* C9, amended: the clock starts at the title's duration, the first slot of
\* unit i+1 starts at the end of the last slot of unit i (a chunk whose image
\* is missing keeps its slot without an overlay), and the final clock is the
\* title's duration plus all unit durations.
C9_ClockContinuity ==
    /\ (tl_pc # "title" /\ slots = <<>>) => current_time = title_audio_duration
    /\ \A n \in 1..Len(slots) :
          /\ n = 1 => slots[n].start = title_audio_duration
          /\ n > 1 => slots[n].start = slots[n - 1].end
    /\ (tl_pc # "title" /\ slots # <<>>) => current_time = slots[Len(slots)].end
    /\ (tl_pc = "unit" \/ tl_pc = "done") =>
          current_time = RAdd(title_audio_duration, SumDurations(unit_log))
    /\ tl_pc = "done" => Len(unit_log) = Len(parsed_story_content)

\* C9's case: two units were laid out and the loop has ended.
C9_Witness ==
    /\ tl_pc = "done"
    /\ Len(unit_log) = 2
    /\ unit_log[1].k = 2
    /\ \E n \in 2..Len(slots) : slots[n].unit = 1 /\ slots[n - 1].unit = 0


\* The duration probed for unit j, and the share d/k of each of its chunks.
DurationOfUnit(j) ==
    IF tl_pc = "chunk" /\ j = seg_j THEN audio_segment_duration
    ELSE unit_log[CHOOSE n \in 1..Len(unit_log) : unit_log[n].unit = j].d

ShareOfUnit(j) ==
    RDivInt(DurationOfUnit(j), Len(parsed_story_content[j + 1].visual_chunks))

\* Where slot n starts in a run in which no image is missing: the title's
\* duration plus the shares of the chunks before it.
RECURSIVE StartWithAllImages(_)
StartWithAllImages(n) ==
    IF n = 1 THEN title_audio_duration
    ELSE RAdd(StartWithAllImages(n - 1), ShareOfUnit(slots[n - 1].unit))

\* C23: a chunk whose image is missing still takes its share d/k of the
\* clock and its image index, so every chunk has the image index, the start
\* and the end it has in a run in which no image is missing, whichever
\* images are missing.
C23_MissingImageKeepsTimeline ==
    /\ \A n \in 1..Len(slots) :
          /\ slots[n].img = n - 1
          /\ slots[n].start = StartWithAllImages(n)
          /\ slots[n].end = RAdd(StartWithAllImages(n), ShareOfUnit(slots[n].unit))
    /\ global_visual_chunk_idx = Len(slots)
    /\ (tl_pc # "title" /\ slots # <<>>) => current_time = slots[Len(slots)].end

\* The image of the first chunk of a unit of two chunks was missing, the
\* second chunk was overlaid, and a chunk of the next unit was overlaid too.
C23_Witness ==
    /\ tl_pc = "done"
    /\ \E n \in 1..(Len(slots) - 2) :
          /\ ~slots[n].overlay
          /\ slots[n + 1].overlay
          /\ slots[n + 1].unit = slots[n].unit
          /\ slots[n + 2].overlay
          /\ slots[n + 2].unit # slots[n].unit

\* reddit/subreddit.py lines 471 and 587: content["thread_post"], the visual
\* chunks of the units in one flat list.
RECURSIVE FlatChunks(_)
FlatChunks(units) ==
    IF units = <<>> THEN <<>>
    ELSE Head(units).visual_chunks \o FlatChunks(Tail(units))

thread_post == FlatChunks(parsed_story_content)

\* reddit/subreddit.py lines 472 and 588: content["audio_segments"].
audio_segments ==
    [j \in 1..Len(parsed_story_content) |-> parsed_story_content[j].audio_text]

\* TTS/engine_wrapper.py lines 90-91 and 104-106: audio_segment-{n}.mp3 is
\* rendered from the n-th entry of audio_segments, counted from 0.
SegmentRenderedFrom(n) == audio_segments[n + 1]

RECURSIVE ChunksBefore(_)
ChunksBefore(j) ==
    IF j = 0 THEN 0
    ELSE Len(parsed_story_content[j].visual_chunks) + ChunksBefore(j - 1)

\* C30: chunk c of unit j goes with img{n}.png where n is the number of
\* chunks of the units before j plus c, the index of the chunk in
\* content["thread_post"]; the audio file probed for unit j is the one
\* rendered from the audio_text of unit j; and after the last unit the image
\* index is the length of content["thread_post"].
C30_ChunkImageAudioPairing ==
    /\ \A n \in 1..Len(slots) :
          /\ slots[n].img = ChunksBefore(slots[n].unit) + (slots[n].chunk[2] - 1)
          /\ slots[n].chunk = thread_post[slots[n].img + 1]
    /\ \A n \in 1..Len(unit_log) :
          SegmentRenderedFrom(unit_log[n].mp3) =
              parsed_story_content[unit_log[n].unit + 1].audio_text
    /\ tl_pc = "done" => global_visual_chunk_idx = Len(thread_post)

\* C30's case: two units of two chunks each were laid out, an image of the
\* first unit missing.
C30_Witness ==
    /\ tl_pc = "done"
    /\ Len(parsed_story_content) = 2
    /\ Len(thread_post) = 4
    /\ Len(slots) = 4
    /\ Len(unit_log) = 2
    /\ ~slots[1].overlay
    /\ slots[4].overlay

(***************************************************************************)
(* reddit/subreddit.py: comments and the suitability predicates.           *)
(* A comment body is a sequence of tokens separated by single spaces.      *)
(***************************************************************************)
None == "None"
NoId == 0             \* an id that is None or empty

Tokens == {"hello", "Damn", "damnation", "http://x.co", "[removed]", "[deleted]"}

\* len(token)
TokLen(t) ==
    CASE t = "hello"       -> 5
      [] t = "Damn"        -> 4
      [] t = "damnation"   -> 9
      [] t = "http://x.co" -> 11
      [] t = "[removed]"   -> 9
      [] t = "[deleted]"   -> 9

\* The words a regular expression finds between \b and \b in token.lower().
TokWords(t) ==
    CASE t = "hello"       -> {"hello"}
      [] t = "Damn"        -> {"damn"}
      [] t = "damnation"   -> {"damnation"}
      [] t = "http://x.co" -> {"http", "x", "co"}
      [] t = "[removed]"   -> {"removed"}
      [] t = "[deleted]"   -> {"deleted"}

\* len(body)
RECURSIVE BodyLen(_)
BodyLen(body) ==
    IF body = <<>> THEN 0
    ELSE TokLen(Head(body)) + (IF Len(body) > 1 THEN 1 ELSE 0) + BodyLen(Tail(body))

\* utils.voice.sanitize_text: links are dropped, words are kept.
sanitize_text(body) == SelectSeq(body, LAMBDA t : t # "http://x.co")

\* Lines 39-47: the first blocked word found in the text, or None.
RECURSIVE FirstBlocked(_, _)
FirstBlocked(words, body) ==
    IF words = <<>> THEN None
    ELSE IF \E i \in 1..Len(body) : Head(words) \in TokWords(body[i])
         THEN Head(words)
         ELSE FirstBlocked(Tail(words), body)

contains_swear_word(text) ==
    IF LOADED_SWEAR_WORDS = <<>> \/ text = <<>> THEN None
    ELSE FirstBlocked(LOADED_SWEAR_WORDS, text)

IsPlaceholder(body) == body = <<"[removed]">> \/ body = <<"[deleted]">>

\* Lines 94-97: min_len <= len(body) <= max_len.
LengthInRangeExclusiveMax(body, cfg) ==
    cfg.min_comment_length <= BodyLen(body) /\ BodyLen(body) < cfg.max_comment_length

LengthInRange(body, cfg) ==
    cfg.min_comment_length <= BodyLen(body) /\ BodyLen(body) <= cfg.max_comment_length

\* Lines 80-107: the reason _is_praw_comment_suitable_for_read_story prints
\* before it returns False, or "ok" when it returns True.
PrawVerdictLengthFirst(comment_obj, used_comment_ids, cfg) ==
    IF comment_obj.stickied \/ IsPlaceholder(comment_obj.body)
    THEN "stickied_or_placeholder"
    ELSE IF sanitize_text(comment_obj.body) = <<>>
    THEN "empty_after_sanitize"
    ELSE IF ~LengthInRange(comment_obj.body, cfg)
    THEN "length_out_of_range"
    ELSE IF contains_swear_word(comment_obj.body) # None
    THEN "blocked_term"
    ELSE IF comment_obj.author = None
    THEN "no_author"
    ELSE IF comment_obj.id \in used_comment_ids
    THEN "already_used"
    ELSE "ok"

PrawVerdict(comment_obj, used_comment_ids, cfg) ==
    IF comment_obj.stickied \/ IsPlaceholder(comment_obj.body)
    THEN "stickied_or_placeholder"
    ELSE IF sanitize_text(comment_obj.body) = <<>>
    THEN "empty_after_sanitize"
    ELSE IF contains_swear_word(comment_obj.body) # None
    THEN "blocked_term"
    ELSE IF ~LengthInRange(comment_obj.body, cfg)
    THEN "length_out_of_range"
    ELSE IF comment_obj.author = None
    THEN "no_author"
    ELSE IF comment_obj.id \in used_comment_ids
    THEN "already_used"
    ELSE "ok"

_is_praw_comment_suitable_for_read_story(comment_obj, used_comment_ids, cfg) ==
    PrawVerdict(comment_obj, used_comment_ids, cfg) = "ok"

\* Lines 529-535: the dict the keyword search builds from a PRAW comment.
CommentDict(comment_object) ==
    [body     |-> comment_object.body,
     id       |-> comment_object.id,
     author   |-> comment_object.author,
     stickied |-> comment_object.stickied]

\* Lines 111-146: the same for a comment dict of the keyword search.
DictVerdict(comment_dict, used_comment_ids, cfg) ==
    IF comment_dict.body = <<>> \/ comment_dict.id = NoId
    THEN "missing_body_or_id"
    ELSE IF comment_dict.stickied \/ IsPlaceholder(comment_dict.body)
    THEN "stickied_or_placeholder"
    ELSE IF sanitize_text(comment_dict.body) = <<>>
    THEN "empty_after_sanitize"
    ELSE IF contains_swear_word(comment_dict.body) # None
    THEN "blocked_term"
    ELSE IF ~LengthInRange(comment_dict.body, cfg)
    THEN "length_out_of_range"
    ELSE IF comment_dict.author = None
    THEN "no_author"
    ELSE IF comment_dict.id \in used_comment_ids
    THEN "already_used"
    ELSE "ok"

_is_comment_dict_suitable_for_read_story(comment_dict, used_comment_ids, cfg) ==
    DictVerdict(comment_dict, used_comment_ids, cfg) = "ok"

(***************************************************************************)
(* The comments the predicates are called on.                              *)
(***************************************************************************)
MaxBodyTokens == 2
MaxIds == 2

Bodies == UNION {[1..k -> Tokens] : k \in 0..MaxBodyTokens}
CommentIds == 1..MaxIds
Comments ==
    [id : CommentIds, stickied : BOOLEAN, body : Bodies, author : {None, "u1"}]
ThreadConfigs ==
    [min_comment_length : {0, 5}, max_comment_length : {5, 11}]
SwearLists == {<<>>, <<"heck", "damn">>}

SuitInit ==
    /\ s_pc = "ready"
    /\ LOADED_SWEAR_WORDS \in SwearLists
    /\ s_comment \in Comments
    /\ s_used \in SUBSET CommentIds
    /\ s_cfg \in ThreadConfigs
    /\ s_verdict = None

SuitIdle ==
    /\ s_pc = "off"
    /\ LOADED_SWEAR_WORDS = <<>>
    /\ s_comment = None
    /\ s_used = {}
    /\ s_cfg = None
    /\ s_verdict = None

\* A call of _is_praw_comment_suitable_for_read_story.
EvaluatePraw ==
    /\ s_pc = "ready"
    /\ s_verdict' = [by |-> "praw", reason |-> PrawVerdict(s_comment, s_used, s_cfg),
                     ret |-> _is_praw_comment_suitable_for_read_story(s_comment, s_used, s_cfg)]
    /\ s_pc' = "evaluated"
    /\ UNCHANGED <<LOADED_SWEAR_WORDS, s_comment, s_used, s_cfg>>
    /\ UNCHANGED <<parserVars, tlVars, bfsVars, mainVars, undoneVars, raceVars, ttsVars, retryVars>>

\* A call of _is_comment_dict_suitable_for_read_story on the comment's dict.
EvaluateDict ==
    /\ s_pc = "ready"
    /\ s_verdict' = [by |-> "dict",
                     reason |-> DictVerdict(CommentDict(s_comment), s_used, s_cfg),
                     ret |-> _is_comment_dict_suitable_for_read_story(
                                 CommentDict(s_comment), s_used, s_cfg)]
    /\ s_pc' = "evaluated"
    /\ UNCHANGED <<LOADED_SWEAR_WORDS, s_comment, s_used, s_cfg>>
    /\ UNCHANGED <<parserVars, tlVars, bfsVars, mainVars, undoneVars, raceVars, ttsVars, retryVars>>

SuitNext == EvaluatePraw \/ EvaluateDict

(***************************************************************************)
(* Claims about the suitability predicate                                  *)
(***************************************************************************)
\* The checks the claim lists, in the claim's order; 0 when none fails.
C4_FirstFailing(c, used, cfg) ==
    IF c.stickied THEN 1
    ELSE IF c.body = <<"[removed]">> \/ c.body = <<"[deleted]">> THEN 2
    ELSE IF sanitize_text(c.body) = <<>> THEN 3
    ELSE IF \E w \in {"heck", "damn"} :
               /\ \E n \in 1..Len(LOADED_SWEAR_WORDS) : LOADED_SWEAR_WORDS[n] = w
               /\ \E i \in 1..Len(c.body) : w \in TokWords(c.body[i])
         THEN 4
    ELSE IF ~(cfg.min_comment_length <= BodyLen(c.body)
              /\ BodyLen(c.body) <= cfg.max_comment_length) THEN 5
    ELSE IF c.author = None THEN 6
    ELSE IF c.id \in used THEN 7
    ELSE 0

C4_Report(n) ==
    CASE n = 0 -> "ok"
      [] n = 1 -> "stickied_or_placeholder"
      [] n = 2 -> "stickied_or_placeholder"
      [] n = 3 -> "empty_after_sanitize"
      [] n = 4 -> "blocked_term"
      [] n = 5 -> "length_out_of_range"
      [] n = 6 -> "no_author"
      [] n = 7 -> "already_used"

\* C4: _is_praw_comment_suitable_for_read_story returns True exactly when the
\* comment is not stickied, its body is no placeholder, its sanitized body is
\* not empty, its body has no blocked term, its length is within the inclusive
\* range, its author is present and its id is unused; the checks run in this
\* order and the message printed is that of the first check that fails.
C4_SuitableIff ==
    (s_pc = "evaluated" /\ s_verdict.by = "praw") =>
        /\ s_verdict.ret = (C4_FirstFailing(s_comment, s_used, s_cfg) = 0)
        /\ s_verdict.reason = C4_Report(C4_FirstFailing(s_comment, s_used, s_cfg))

\* C4's case: a comment whose length is exactly the upper bound was accepted,
\* with the blocked-term list loaded and other ids in the used set.
C4_Witness ==
    /\ s_pc = "evaluated"
    /\ s_verdict.by = "praw"
    /\ s_verdict.ret
    /\ LOADED_SWEAR_WORDS # <<>>
    /\ s_used # {}
    /\ BodyLen(s_comment.body) = s_cfg.max_comment_length
    /\ Len(s_comment.body) = 2


(***************************************************************************)
(* _find_first_suitable_praw_comment_via_bfs.                              *)
(* A tree item is a Comment with replies or a MoreComments marker with the *)
(* children item.comments() loads (or raises); replies and children name   *)
(* other items, so that a tree may hold cycles.  What replace_more leaves  *)
(* in a list is PRAW's affair: a list may still hold markers.              *)
(***************************************************************************)
\* Lines 173-177 and 182-186: the items of `children` the for-loop appends
\* before processed_tree_nodes + len(queue) reaches the cap.
RECURSIVE Accepted(_, _, _, _)
Accepted(q, processed, children, cap) ==
    IF children = <<>> \/ ~(processed + Len(q) < cap) THEN <<>>
    ELSE <<Head(children)>> \o Accepted(Append(q, Head(children)), processed, Tail(children), cap)

EnqueueAtFront(q, processed, children, cap) == Accepted(q, processed, children, cap) \o q

Enqueue(q, processed, children, cap) == q \o Accepted(q, processed, children, cap)

\* Line 151.
TreeCap(max_scan) == max_scan * 3

\* Line 161: the condition of the while.
LoopCondNoScanCap(st, max_scan) ==
    /\ st.queue # <<>>
    /\ st.processed < TreeCap(max_scan)

LoopCond(st, max_scan) ==
    /\ st.queue # <<>>
    /\ st.checked < max_scan
    /\ st.processed < TreeCap(max_scan)

\* Lines 162-188: one pass of the while on the item popped from the queue.
BfsIterCountsMarkers(st, item, used, cfg, max_scan) ==
    LET q1 == Tail(st.queue)
        p1 == st.processed + 1
    IN  IF item.kind = "Comment"
           /\ _is_praw_comment_suitable_for_read_story(item.comment, used, cfg)
        THEN [queue |-> q1, checked |-> st.checked + 1, processed |-> p1,
              result |-> item.id, returned |-> TRUE]
        ELSE IF item.raises
        THEN [queue |-> q1, checked |-> st.checked + 1, processed |-> p1,
              result |-> NoId, returned |-> FALSE]
        ELSE [queue |-> Enqueue(q1, p1, item.replies, TreeCap(max_scan)),
              checked |-> st.checked + 1, processed |-> p1,
              result |-> NoId, returned |-> FALSE]

BfsIter(st, item, used, cfg, max_scan) ==
    LET q1 == Tail(st.queue)
        p1 == st.processed + 1
    IN  IF item.kind = "Comment"
        THEN IF _is_praw_comment_suitable_for_read_story(item.comment, used, cfg)
             THEN [queue |-> q1, checked |-> st.checked + 1, processed |-> p1,
                   result |-> item.id, returned |-> TRUE]
             ELSE [queue |-> Enqueue(q1, p1, item.replies, TreeCap(max_scan)),
                   checked |-> st.checked + 1, processed |-> p1,
                   result |-> NoId, returned |-> FALSE]
        ELSE IF item.raises
             THEN [queue |-> q1, checked |-> st.checked, processed |-> p1,
                   result |-> NoId, returned |-> FALSE]
             ELSE [queue |-> Enqueue(q1, p1, item.replies, TreeCap(max_scan)),
                   checked |-> st.checked, processed |-> p1,
                   result |-> NoId, returned |-> FALSE]

\* Lines 153-157: the counters and the queue before the while.
BfsStart(top) ==
    [queue |-> top, checked |-> 0, processed |-> 0, result |-> NoId, returned |-> FALSE]

\* Lines 148-200 on a whole tree: the id of the comment returned, NoId for None.
RECURSIVE BfsLoop(_, _, _, _, _)
BfsLoop(st, tree, used, cfg, max_scan) ==
    IF st.returned \/ ~LoopCond(st, max_scan) THEN st
    ELSE BfsLoop(BfsIter(st, tree[Head(st.queue)], used, cfg, max_scan),
                 tree, used, cfg, max_scan)

_find_first_suitable_praw_comment_via_bfs(top, tree, used, cfg, max_scan) ==
    BfsLoop(BfsStart(top), tree, used, cfg, max_scan).result

(***************************************************************************)
(* The trees the search is run on, fetched item by item.  Items are        *)
(* numbered in the order in which the lists fetched so far mention them: a *)
(* list entry is an item mentioned before (a shared or cyclic pointer) or  *)
(* the next new item.                                                      *)
(***************************************************************************)
MaxNodes == 3         \* items of a tree
MaxEdges == 4         \* entries of all the lists of a tree
MaxScan == 2          \* max_comments_to_scan_for_keywords

Nodes == 1..MaxNodes

Range(l) == { l[i] : i \in 1..Len(l) }

Max2(a, b) == IF a >= b THEN a ELSE b
Min2(a, b) == IF a <= b THEN a ELSE b

\* The lists of n entries that can follow the mention of items 1..k.
RECURSIVE ListsAfter(_, _)
ListsAfter(k, n) ==
    IF n = 0 THEN {<<>>}
    ELSE UNION { { <<x>> \o r : r \in ListsAfter(Max2(k, x), n - 1) }
                 : x \in 1..Min2(k + 1, MaxNodes) }

ListsUpTo(k, n) == UNION { ListsAfter(k, m) : m \in 0..n }

RECURSIVE MaxOf(_)
MaxOf(l) == IF l = <<>> THEN 0 ELSE Max2(Head(l), MaxOf(Tail(l)))

GoodComment(x) == [id |-> x, stickied |-> FALSE, body |-> <<"hello">>, author |-> "u1"]
StickiedComment(x) == [id |-> x, stickied |-> TRUE, body |-> <<"hello">>, author |-> "u1"]

\* What the item x can turn out to be when k items are known and n more
\* list entries may be fetched.
CommentItems(x, k, n) ==
    [id : {x}, kind : {"Comment"}, comment : {GoodComment(x), StickiedComment(x)},
     replies : ListsUpTo(k, n), raises : {FALSE}]
MoreItems(x, k, n) ==
    [id : {x}, kind : {"MoreComments"}, comment : {GoodComment(x)},
     replies : ListsUpTo(k, n), raises : {FALSE}]
    \cup
    [id : {x}, kind : {"MoreComments"}, comment : {GoodComment(x)},
     replies : {<<>>}, raises : {TRUE}]

\* used_comment_ids: nothing used yet, or the first comment of the thread.
BfsUsedSets == {{}, {1}}

BfsThreadConfig == [min_comment_length |-> 0, max_comment_length |-> 11]

BfsInit ==
    /\ b_pc = "loop"
    /\ MAX_COMMENTS_TO_SCAN \in 0..MaxScan
    /\ b_used \in BfsUsedSets
    /\ forest = <<>>
    /\ queue \in ListsUpTo(0, MaxEdges)
    /\ comments_actually_checked = 0
    /\ processed_tree_nodes = 0
    /\ b_result = NoId
    /\ b_log = <<>>
    /\ b_enq = queue
    /\ b_known = MaxOf(queue)
    /\ b_edges = Len(queue)

BfsIdle ==
    /\ b_pc = "off"
    /\ MAX_COMMENTS_TO_SCAN = 0
    /\ b_used = {}
    /\ forest = <<>>
    /\ queue = <<>>
    /\ comments_actually_checked = 0
    /\ processed_tree_nodes = 0
    /\ b_result = NoId
    /\ b_log = <<>>
    /\ b_enq = <<>>
    /\ b_known = 0
    /\ b_edges = 0

BfsState ==
    [queue |-> queue, checked |-> comments_actually_checked,
     processed |-> processed_tree_nodes, result |-> b_result, returned |-> FALSE]

\* One pass of the while: the item at the head of the queue is popped; what
\* it is was fetched before, or is fetched now.
BfsVisit(items) ==
    /\ b_pc = "loop"
    /\ LoopCond(BfsState, MAX_COMMENTS_TO_SCAN)
    /\ LET x == Head(queue) IN
       \E item \in (IF x \in DOMAIN forest THEN {forest[x]} ELSE items) :
          LET st == BfsIter(BfsState, item, b_used, BfsThreadConfig, MAX_COMMENTS_TO_SCAN) IN
          /\ forest' = (IF x \in DOMAIN forest THEN forest ELSE (x :> item) @@ forest)
          /\ b_known' = (IF x \in DOMAIN forest THEN b_known
                         ELSE Max2(b_known, MaxOf(item.replies)))
          /\ b_edges' = (IF x \in DOMAIN forest THEN b_edges
                         ELSE b_edges + Len(item.replies))
          /\ queue' = st.queue
          /\ comments_actually_checked' = st.checked
          /\ processed_tree_nodes' = st.processed
          /\ b_result' = st.result
          /\ b_pc' = IF st.returned THEN "done" ELSE "loop"
          /\ b_log' = Append(b_log,
                 [node |-> x, kind |-> item.kind,
                  evaluated |-> st.checked > comments_actually_checked,
                  suitable |-> st.returned])
          /\ b_enq' = b_enq \o
                 (IF st.returned \/ item.raises THEN <<>>
                  ELSE Accepted(Tail(queue), st.processed, item.replies,
                                TreeCap(MAX_COMMENTS_TO_SCAN)))
    /\ UNCHANGED <<MAX_COMMENTS_TO_SCAN, b_used>>
    /\ UNCHANGED <<parserVars, tlVars, suitVars, mainVars, undoneVars, raceVars, ttsVars, retryVars>>

\* Lines 165-177: the popped item is a Comment.
BfsVisitComment ==
    /\ queue # <<>>
    /\ (Head(queue) \in DOMAIN forest => forest[Head(queue)].kind = "Comment")
    /\ BfsVisit(CommentItems(Head(queue), b_known, MaxEdges - b_edges))

\* Lines 179-188: the popped item is a MoreComments marker.
BfsVisitMore ==
    /\ queue # <<>>
    /\ (Head(queue) \in DOMAIN forest => forest[Head(queue)].kind = "MoreComments")
    /\ BfsVisit(MoreItems(Head(queue), b_known, MaxEdges - b_edges))

\* Lines 193-200: the while has ended without a return inside it.
BfsReturnNone ==
    /\ b_pc = "loop"
    /\ ~LoopCond(BfsState, MAX_COMMENTS_TO_SCAN)
    /\ b_pc' = "done"
    /\ b_result' = NoId
    /\ UNCHANGED <<MAX_COMMENTS_TO_SCAN, b_used, forest, queue, comments_actually_checked,
                   processed_tree_nodes, b_log, b_enq, b_known, b_edges>>
    /\ UNCHANGED <<parserVars, tlVars, suitVars, mainVars, undoneVars, raceVars, ttsVars, retryVars>>

BfsNext == BfsVisitComment \/ BfsVisitMore \/ BfsReturnNone


(***************************************************************************)
(* Claims on the search                                                    *)
(***************************************************************************)
BfsReturned == b_pc = "done" /\ b_result # NoId

BfsSuitable(x) ==
    PrawVerdict(forest[x].comment, b_used, BfsThreadConfig) = "ok"

EvaluatedCount == Cardinality({ i \in 1..Len(b_log) : b_log[i].evaluated })

\* C2: when the search returns a comment c, c passed the suitability check,
\* every comment popped before c was evaluated and rejected, the items were
\* popped in the order in which they were put in the queue, and c is the
\* last item popped and evaluated.
C2_FirstMatchFifo ==
    BfsReturned =>
        LET n == Len(b_log) IN
        /\ n > 0
        /\ b_log[n].node = b_result
        /\ b_log[n].kind = "Comment"
        /\ b_log[n].evaluated
        /\ BfsSuitable(b_result)
        /\ \A i \in 1..(n - 1) :
              b_log[i].kind = "Comment" =>
                  /\ b_log[i].evaluated
                  /\ ~b_log[i].suitable
                  /\ ~BfsSuitable(b_log[i].node)
        /\ n <= Len(b_enq)
        /\ \A i \in 1..n : b_log[i].node = b_enq[i]
        /\ EvaluatedCount = comments_actually_checked

\* The search returns a reply that was put in the queue behind an item of the
\* top level, after a rejected comment and a MoreComments marker.
C2_Witness ==
    /\ BfsReturned
    /\ Len(b_log) >= 3
    /\ \E i \in 1..(Len(b_log) - 1) : b_log[i].kind = "Comment"
    /\ \E i \in 1..(Len(b_log) - 1) : b_log[i].kind = "MoreComments"
    /\ \E i \in 1..(Len(b_log) - 1) : b_result \in Range(forest[b_log[i].node].replies)
    /\ queue # <<>>

\* C3: on every tree, cyclic ones and markers that expand to markers
\* included, and for every cap, the search ends, and it never evaluates more
\* comments than max_comments_to_scan_for_keywords.
C3_TerminatesWithinCap ==
    /\ [](/\ comments_actually_checked <= MAX_COMMENTS_TO_SCAN
          /\ EvaluatedCount <= MAX_COMMENTS_TO_SCAN)
    /\ <>(b_pc = "done")

\* The search has ended on its comment cap with items still queued, on a tree
\* where an item was reached twice and a marker expanded to a marker.
C3_Witness ==
    /\ b_pc = "done"
    /\ b_result = NoId
    /\ MAX_COMMENTS_TO_SCAN > 0
    /\ comments_actually_checked = MAX_COMMENTS_TO_SCAN
    /\ queue # <<>>
    /\ \E i, j \in 1..Len(b_log) : i < j /\ b_log[i].node = b_log[j].node
    /\ \E x \in DOMAIN forest :
          /\ forest[x].kind = "MoreComments"
          /\ \E y \in Range(forest[x].replies) :
                y \in DOMAIN forest /\ forest[y].kind = "MoreComments"


\* The Comments among the items popped so far.
PoppedComments == { i \in 1..Len(b_log) : b_log[i].kind = "Comment" }

\* C17: processed_tree_nodes counts every item popped and
\* comments_actually_checked counts the Comments among them, so
\* checked <= processed <= 3 * MAX_COMMENTS_TO_SCAN and
\* checked <= MAX_COMMENTS_TO_SCAN; the search returns None exactly when the
\* while ends on its condition, with the queue empty or a counter at its cap,
\* and a comment exactly when the last pass returned it.
C17_CountersAndNone ==
    /\ processed_tree_nodes = Len(b_log)
    /\ comments_actually_checked = Cardinality(PoppedComments)
    /\ comments_actually_checked <= processed_tree_nodes
    /\ processed_tree_nodes <= 3 * MAX_COMMENTS_TO_SCAN
    /\ comments_actually_checked <= MAX_COMMENTS_TO_SCAN
    /\ \A i \in 1..Len(b_log) :
          b_log[i].suitable => i = Len(b_log) /\ b_pc = "done" /\ b_result = b_log[i].node
    /\ b_pc = "done" /\ b_result = NoId =>
          \/ queue = <<>>
          \/ comments_actually_checked = MAX_COMMENTS_TO_SCAN
          \/ processed_tree_nodes = 3 * MAX_COMMENTS_TO_SCAN
    /\ b_pc = "done" /\ b_result # NoId =>
          b_log # <<>> /\ b_log[Len(b_log)].suitable

\* The search returned None at the cap on the tree items, after it popped
\* Comments and markers: fewer Comments were checked than items processed.
C17_Witness ==
    /\ b_pc = "done"
    /\ b_result = NoId
    /\ processed_tree_nodes = 3 * MAX_COMMENTS_TO_SCAN
    /\ 0 < comments_actually_checked
    /\ comments_actually_checked < processed_tree_nodes
    /\ \E i \in 1..Len(b_log) : b_log[i].kind = "MoreComments"


\* The markers popped so far whose item.comments() raised.
FailedMarkers == { i \in 1..Len(b_log) : forest[b_log[i].node].raises }

\* C21: an exception while a MoreComments marker is expanded during the BFS
\* is not turned into an empty list of children nor into the result None
\* that stands for "no suitable comment": no pass of the while follows the
\* pass in which a marker raised, and the search does not return a comment
\* or None after one.
C21_AsStated ==
    /\ \A i \in FailedMarkers : i = Len(b_log)
    /\ b_pc = "done" => FailedMarkers = {}

\* item.comments() raised on a marker, the search went on to the items
\* behind it in the queue and returned None with the queue empty, as it
\* does for a thread with no suitable comment.
C21_Witness ==
    /\ b_pc = "done"
    /\ b_result = NoId
    /\ queue = <<>>
    /\ comments_actually_checked < MAX_COMMENTS_TO_SCAN
    /\ processed_tree_nodes < 3 * MAX_COMMENTS_TO_SCAN
    /\ \E i \in FailedMarkers : i < Len(b_log)


(***************************************************************************)
(* A run of main: get_subreddit_threads picks a submission and selects its *)
(* comments, then the narration, the screenshots and the final video are   *)
(* rendered.  The three stores are files that outlive the run.             *)
(***************************************************************************)
MaxThreads == 2       \* submissions of the subreddit
MaxComments == 2      \* comments of a submission

ThreadIds == 1..MaxThreads
RunNodes == 1..MaxComments

\* list.sort() and sorted(): insertion keeps every occurrence.
RECURSIVE Insert(_, _)
Insert(x, l) ==
    IF l = <<>> THEN <<x>>
    ELSE IF x <= Head(l) THEN <<x>> \o l
    ELSE <<Head(l)>> \o Insert(x, Tail(l))

RECURSIVE sorted(_)
sorted(l) == IF l = <<>> THEN <<>> ELSE Insert(Head(l), sorted(Tail(l)))

\* list(a_set): the elements in some order.
RECURSIVE ListOfSet(_)
ListOfSet(S) ==
    IF S = {} THEN <<>>
    ELSE LET x == CHOOSE y \in S : TRUE IN <<x>> \o ListOfSet(S \ {x})

\* What a store file holds: no file, text json.load cannot parse, a JSON
\* list, or a JSON dict.
AbsentFile == [kind |-> "absent", list |-> <<>>, dict |-> <<>>]
CorruptFile == [kind |-> "corrupt", list |-> <<>>, dict |-> <<>>]
ListFile(l) == [kind |-> "list", list |-> l, dict |-> <<>>]
DictFile(d) == [kind |-> "dict", list |-> <<>>, dict |-> d]

\* dict.get(thread_id, []) on the dict of used_comments.json.
DictGet(d, thread_id) == IF thread_id \in DOMAIN d THEN d[thread_id] ELSE <<>>

\* Lines 658: used_comments_data[current_thread_id] = ...
DictSetForgets(d, thread_id, l) == [t \in {thread_id} |-> l]

DictSet(d, thread_id, l) ==
    [t \in (DOMAIN d) \cup {thread_id} |-> IF t = thread_id THEN l ELSE d[t]]

\* Lines 245-267 of get_subreddit_threads: the dict loaded from
\* used_comments.json, and the file as the load leaves it.  The writes of
\* lines 256, 261 and 265 are in no try that catches an OSError: in a
\* directory that is not writable they raise.
LoadUsedComments(file, writable) ==
    IF file.kind = "dict"
    THEN [used_comments_data |-> file.dict, file |-> file, raised |-> FALSE]
    ELSE IF writable
    THEN [used_comments_data |-> <<>>, file |-> DictFile(<<>>), raised |-> FALSE]
    ELSE [used_comments_data |-> <<>>, file |-> file, raised |-> TRUE]

\* Lines 269-282: the list loaded from unsuitable_threads.json.
LoadUnsuitableThreads(file) == IF file.kind = "list" THEN file.list ELSE <<>>

\* Lines 53-71: the list after the call and the file after it.  When the
\* directory is not writable, open() raises, the except clauses print the
\* error and the file stays as it was.
_save_unsuitable_thread_id(thread_id, unsuitable_ids_list, file, writable) ==
    IF thread_id = NoId \/ thread_id \in Range(unsuitable_ids_list)
    THEN [unsuitable_thread_ids |-> unsuitable_ids_list, file |-> file]
    ELSE LET l == sorted(Append(unsuitable_ids_list, thread_id))
         IN  [unsuitable_thread_ids |-> l,
              file |-> IF writable THEN ListFile(l) ELSE file]

\* utils/subreddit.py lines 92-96.
already_doneNever(done_videos, submission_id) == FALSE

already_done(done_videos, submission_id) == submission_id \in Range(done_videos)

\* utils/subreddit.py lines 19-67: the for-loop over one listing.  `quiet`
\* holds the submissions whose num_comments is 0 and `crowded` those whose
\* num_comments exceeds a max_comments_for_post that is set; min_comments is
\* 0, no submission is over_18 or stickied, and every selftext is a story of
\* accepted length.
RECURSIVE ScanSubmissions(_, _, _, _, _, _)
ScanSubmissions(submissions, unsuitable_ids, done_videos, storymode, quiet, crowded) ==
    IF submissions = <<>>
    THEN [submission |-> NoId, unsuitable_thread_ids |-> unsuitable_ids]
    ELSE LET s == Head(submissions) IN
         IF already_done(done_videos, s)
         THEN ScanSubmissions(Tail(submissions), unsuitable_ids, done_videos,
                              storymode, quiet, crowded)
         ELSE IF unsuitable_ids # <<>> /\ s \in Range(unsuitable_ids)
                 /\ ~storymode
         THEN ScanSubmissions(Tail(submissions), unsuitable_ids, done_videos,
                              storymode, quiet, crowded)
         ELSE IF s \in crowded
         THEN ScanSubmissions(Tail(submissions), Append(unsuitable_ids, s),
                              done_videos, storymode, quiet, crowded)
         ELSE IF s \in quiet /\ ~storymode
         THEN ScanSubmissions(Tail(submissions), Append(unsuitable_ids, s),
                              done_videos, storymode, quiet, crowded)
         ELSE [submission |-> s, unsuitable_thread_ids |-> unsuitable_ids]

\* utils/subreddit.py lines 69-76.
VALID_TIME_FILTERS_Seven == <<"day", "hour", "month", "week", "year", "all", "day">>

VALID_TIME_FILTERS == <<"day", "hour", "month", "week", "year", "all">>

\* utils/subreddit.py lines 77-79: no time filter is left for this index.
NoFilterLeft(index) == index >= Len(VALID_TIME_FILTERS)

\* utils/subreddit.py lines 9-89.  Every widened listing subreddit.top(...)
\* holds the submissions of the first listing.
RECURSIVE get_subreddit_undone(_, _, _, _, _, _, _)
get_subreddit_undone(submissions, times_checked, unsuitable_ids, done_videos, storymode, quiet, crowded) ==
    LET r == ScanSubmissions(submissions, unsuitable_ids, done_videos,
                             storymode, quiet, crowded)
        index == times_checked + 1
    IN  IF r.submission # NoId THEN r
        ELSE IF NoFilterLeft(index) THEN r
        ELSE get_subreddit_undone(submissions, index, r.unsuitable_thread_ids,
                                  done_videos, storymode, quiet, crowded)

\* utils/videos.py lines 11-54: the submission id, or NoId for None, and
\* videos.json as the call leaves it.
check_done(file, submission_id, post_id) ==
    LET done_videos == IF file.kind = "list" THEN file.list ELSE <<>>
    IN  [file |-> IF file.kind = "list" THEN file ELSE ListFile(<<>>),
         redditobj |-> IF submission_id \in Range(done_videos) /\ post_id = NoId
                       THEN NoId ELSE submission_id]

\* utils/videos.py lines 57-96: videos.json after save_data.
save_data(file, reddit_id) ==
    LET done_vids == IF file.kind = "list" THEN file.list ELSE <<>>
    IN  IF reddit_id \in Range(done_vids) THEN file
        ELSE ListFile(Append(done_vids, reddit_id))

\* The title of a submission: the titles of the submissions of `blocked`
\* hold a word of the swear list.
Title(submission_id, blocked) ==
    IF submission_id \in blocked THEN <<"hello", "Damn">> ELSE <<"hello">>

\* Lines 323 and 369.
max_retries == 5

\* Lines 324-364 and 370-398: the retry loop around get_subreddit_undone,
\* with `retries` passes left.  In storymode with search keywords the
\* keywords are in the title or the selftext unless search_keywords is
\* "not_in_title".
RECURSIVE RetryLoop(_, _, _, _, _, _, _, _, _, _)
RetryLoop(retries, threads, unsuitable_ids, file, done_videos, c, blocked, quiet, crowded, writable) ==
    IF retries = 0
    THEN [submission |-> NoId, unsuitable_thread_ids |-> unsuitable_ids, file |-> file]
    ELSE LET r == get_subreddit_undone(threads, 0, unsuitable_ids, done_videos,
                                       c.storymode, quiet, crowded)
             saved == _save_unsuitable_thread_id(r.submission, r.unsuitable_thread_ids, file,
                                                 writable)
         IN  IF r.submission = NoId
             THEN [submission |-> NoId, unsuitable_thread_ids |-> r.unsuitable_thread_ids,
                   file |-> file]
             ELSE IF \/ c.storymode /\ c.search_keywords = "not_in_title"
                     \/ contains_swear_word(Title(r.submission, blocked)) # None
             THEN RetryLoop(retries - 1, threads, saved.unsuitable_thread_ids, saved.file,
                            done_videos, c, blocked, quiet, crowded, writable)
             ELSE [submission |-> r.submission,
                   unsuitable_thread_ids |-> r.unsuitable_thread_ids, file |-> file]

\* Lines 401-413: get_subreddit_threads returns None.
NoSubmission(unsuitable_ids, unsuitable_file, videos_file) ==
    [verdict |-> "none", submission |-> NoId, unsuitable_thread_ids |-> unsuitable_ids,
     unsuitable_file |-> unsuitable_file, videos_file |-> videos_file,
     submission_was_already_done |-> FALSE]

\* Lines 401-429: the checks on the submission obtained.
AfterPick(submission_id, unsuitable_ids, unsuitable_file, videos_file, post_id, c, quiet, writable) ==
    IF submission_id = NoId
    THEN NoSubmission(unsuitable_ids, unsuitable_file, videos_file)
    ELSE IF ~c.storymode /\ submission_id \in Range(unsuitable_ids)
    THEN NoSubmission(unsuitable_ids, unsuitable_file, videos_file)
    ELSE IF ~c.storymode /\ submission_id \in quiet
    THEN LET saved == _save_unsuitable_thread_id(submission_id, unsuitable_ids,
                                                 unsuitable_file, writable)
         IN  NoSubmission(saved.unsuitable_thread_ids, saved.file, videos_file)
    ELSE LET cd == check_done(videos_file, submission_id, post_id) IN
         IF c.storymode /\ cd.redditobj = NoId
         THEN NoSubmission(unsuitable_ids, unsuitable_file, cd.file)
         ELSE [verdict |-> "picked", submission |-> submission_id,
               unsuitable_thread_ids |-> unsuitable_ids,
               unsuitable_file |-> unsuitable_file, videos_file |-> cd.file,
               submission_was_already_done |-> cd.redditobj = NoId]

\* Lines 269-429: the submission the run works on.  A post id (the argument
\* POST_ID, which main.py takes from the post_id of the config) is fetched
\* as it is; otherwise the listing `threads` (the keyword search when
\* there are search keywords, the hot listing when not) goes through the
\* retry loop.  get_subreddit_undone creates a missing videos.json and
\* raises on one it cannot parse.
ChooseSubmission(POST_ID, c, threads, blocked, quiet, crowded, unsuitable_file, videos_file, writable) ==
    LET unsuitable_ids == LoadUnsuitableThreads(unsuitable_file) IN
    IF POST_ID # NoId
    THEN AfterPick(POST_ID, unsuitable_ids, unsuitable_file, videos_file, POST_ID, c, quiet,
                   writable)
    ELSE IF c.search_keywords # "none" /\ threads = <<>>
    THEN NoSubmission(unsuitable_ids, unsuitable_file, videos_file)
    ELSE IF videos_file.kind = "corrupt"
    THEN [NoSubmission(unsuitable_ids, unsuitable_file, videos_file)
             EXCEPT !.verdict = "raised"]
    ELSE LET created == IF videos_file.kind = "absent" THEN ListFile(<<>>) ELSE videos_file
             r == RetryLoop(max_retries, threads, unsuitable_ids, unsuitable_file,
                            created.list, c, blocked, quiet, crowded, writable)
         IN  AfterPick(r.submission, r.unsuitable_thread_ids, r.file, created, POST_ID, c,
                       quiet, writable)

\* Lines 500-518: one pass of the while of the keyword search, which
\* collects every comment it pops.
KeywordBfsIter(st, item, max_scan) ==
    LET q1 == Tail(st.queue)
        p1 == st.processed + 1
    IN  IF item.kind = "Comment"
        THEN [queue |-> Enqueue(q1, p1, item.replies, TreeCap(max_scan)),
              collected |-> Append(st.collected, item.id), processed |-> p1]
        ELSE IF item.raises
             THEN [queue |-> q1, collected |-> st.collected, processed |-> p1]
             ELSE [queue |-> Enqueue(q1, p1, item.replies, TreeCap(max_scan)),
                   collected |-> st.collected, processed |-> p1]

\* Lines 490-523: temp_comments_to_check_praw.
RECURSIVE KeywordBfsLoop(_, _, _)
KeywordBfsLoop(st, tree, max_scan) ==
    IF st.queue = <<>> \/ ~(Len(st.collected) < max_scan)
       \/ ~(st.processed < TreeCap(max_scan))
    THEN st.collected
    ELSE KeywordBfsLoop(KeywordBfsIter(st, tree[Head(st.queue)], max_scan), tree, max_scan)

\* Lines 525-535: the dicts of the collected comments whose body holds a
\* keyword; `matching` holds the ids of the comments whose body does.
keyword_matched_comments_list(top, tree, matching, max_scan) ==
    LET collected == KeywordBfsLoop([queue |-> top, collected |-> <<>>, processed |-> 0],
                                    tree, max_scan)
        Matches(x) == x \in matching
    IN  SelectSeq(collected, Matches)

\* Lines 549-552: the id of the first suitable dict of the list, or NoId.
RECURSIVE FirstSuitableDict(_, _, _, _)
FirstSuitableDict(candidates, tree, used_comment_ids, cfg) ==
    IF candidates = <<>> THEN NoId
    ELSE IF _is_comment_dict_suitable_for_read_story(
                CommentDict(tree[Head(candidates)].comment), used_comment_ids, cfg)
         THEN Head(candidates)
         ELSE FirstSuitableDict(Tail(candidates), tree, used_comment_ids, cfg)

\* Lines 611-635: why the standard loop skips a comment, or "ok".
StandardVerdictIgnoresUsed(comment, used_comment_ids, cfg) ==
    IF IsPlaceholder(comment.body) \/ comment.stickied
    THEN "stickied_or_placeholder"
    ELSE IF contains_swear_word(comment.body) # None
    THEN "blocked_term"
    ELSE IF sanitize_text(comment.body) = <<>>
    THEN "empty_after_sanitize"
    ELSE IF ~LengthInRange(comment.body, cfg)
    THEN "length_out_of_range"
    ELSE IF comment.author = None
    THEN "no_author_or_used"
    ELSE "ok"

StandardVerdict(comment, used_comment_ids, cfg) ==
    IF IsPlaceholder(comment.body) \/ comment.stickied
    THEN "stickied_or_placeholder"
    ELSE IF contains_swear_word(comment.body) # None
    THEN "blocked_term"
    ELSE IF sanitize_text(comment.body) = <<>>
    THEN "empty_after_sanitize"
    ELSE IF ~LengthInRange(comment.body, cfg)
    THEN "length_out_of_range"
    ELSE IF comment.author = None \/ comment.id \in used_comment_ids
    THEN "no_author_or_used"
    ELSE "ok"

\* Lines 610-641: the ids appended to content["comments"].
StandardComments(comments_for_standard_processing, used_comment_ids, cfg) ==
    LET Keeps(x) == StandardVerdict(GoodComment(x), used_comment_ids, cfg) = "ok"
    IN  SelectSeq(comments_for_standard_processing, Keeps)

\* Lines 652-661: the dict dumped to used_comments.json.
RecordUsedCommentsAppends(used, thread_id, comment_ids) ==
    DictSet(used, thread_id, DictGet(used, thread_id) \o comment_ids)

RecordUsedComments(used, thread_id, comment_ids) ==
    LET newly_processed_comment_ids == Range(comment_ids)
        master_list_for_thread == Range(DictGet(used, thread_id))
        updated_used_ids_for_thread ==
            master_list_for_thread \cup newly_processed_comment_ids
    IN  DictSet(used, thread_id, sorted(ListOfSet(updated_used_ids_for_thread)))

NoContent == [thread_id |-> NoId, comments |-> <<>>]

\* Lists of distinct ids.
DistinctLists(S, n) ==
    { l \in UNION { [1..m -> S] : m \in 0..n } :
        \A i, j \in 1..Len(l) : i # j => l[i] # l[j] }

\* The comment trees of a submission: top-level comments, and items with at
\* most one reply or child each, which Reddit created after them.
RunItems(x) ==
    [id : {x}, kind : {"Comment", "MoreComments"}, comment : {GoodComment(x)},
     replies : {<<>>} \cup { <<y>> : y \in { z \in RunNodes : z > x } },
     raises : {FALSE}]

RECURSIVE Reachable(_, _)
Reachable(S, tree) ==
    LET T == S \cup UNION { Range(tree[x].replies) : x \in S }
    IN  IF T = S THEN S ELSE Reachable(T, tree)

RunLeaf(x) ==
    [id |-> x, kind |-> "Comment", comment |-> GoodComment(x), replies |-> <<>>,
     raises |-> FALSE]

RunTrees ==
    { tr \in [top : DistinctLists(RunNodes, MaxComments),
              forest : { f \in [RunNodes -> UNION { RunItems(x) : x \in RunNodes }] :
                           \A x \in RunNodes : f[x].id = x }] :
        \A x \in RunNodes \ Reachable(Range(tr.top), tr.forest) :
            tr.forest[x] = RunLeaf(x) }

\* settings.config: read_comment_as_story is read in non-storymode only.
\* search_keywords is "none" when there are no keywords; otherwise it tells
\* whether the keywords are in the title of the submission chosen.
Configs ==
    { c \in [storymode : BOOLEAN, read_comment_as_story : BOOLEAN,
             search_keywords : {"none", "in_title", "not_in_title"}] :
        c.storymode => ~c.read_comment_as_story }

NoConfig ==
    [storymode |-> FALSE, read_comment_as_story |-> FALSE, search_keywords |-> "none"]

\* The data directory a first run can find: the three stores absent,
\* unparseable, empty lists or empty dicts.
StoreFiles == {AbsentFile, CorruptFile, ListFile(<<>>), DictFile(<<>>)}

\* No run is under way.
NoStart ==
    [used_comments_json |-> AbsentFile, unsuitable_threads_json |-> AbsentFile,
     videos_json |-> AbsentFile]

MainInit ==
    /\ m_pc = "start"
    /\ used_comments_json \in StoreFiles
    /\ unsuitable_threads_json = used_comments_json
    /\ videos_json = used_comments_json
    /\ config = NoConfig
    /\ submission = NoId
    /\ used_comments_data = <<>>
    /\ unsuitable_thread_ids = <<>>
    /\ submission_was_already_done = FALSE
    /\ content = NoContent
    /\ m_mode = "none"
    /\ m_outcome = "none"
    /\ m_loaded = {}
    /\ m_selected = {}
    /\ m_post_id = NoId
    /\ m_all_used = FALSE
    /\ m_start = NoStart

MainIdle ==
    /\ m_pc = "off"
    /\ used_comments_json = AbsentFile
    /\ unsuitable_threads_json = AbsentFile
    /\ videos_json = AbsentFile
    /\ config = NoConfig
    /\ submission = NoId
    /\ used_comments_data = <<>>
    /\ unsuitable_thread_ids = <<>>
    /\ submission_was_already_done = FALSE
    /\ content = NoContent
    /\ m_mode = "none"
    /\ m_outcome = "none"
    /\ m_loaded = {}
    /\ m_selected = {}
    /\ m_post_id = NoId
    /\ m_all_used = FALSE
    /\ m_start = NoStart

\* The swear list of a run of main.
MainSwearWords ==
    /\ s_pc = "off"
    /\ LOADED_SWEAR_WORDS = <<"heck", "damn">>
    /\ s_comment = None
    /\ s_used = {}
    /\ s_cfg = None
    /\ s_verdict = None

\* The ids listed under a thread in used_comments.json.
ListedInFile(file, thread_id) ==
    IF file.kind = "dict" THEN Range(DictGet(file.dict, thread_id)) ELSE {}

\* The thread ids listed in unsuitable_threads.json.
ListedUnsuitable(file) == IF file.kind = "list" THEN Range(file.list) ELSE {}

\* The thread ids listed in videos.json.
ListedVideos(file) == IF file.kind = "list" THEN Range(file.list) ELSE {}

\* get_subreddit_threads, lines 207-440: the stores are loaded and the
\* submission is chosen; the function returns None, raises, or goes on to
\* select the content of the submission.  `writable` tells whether the
\* data directory can be written during the call.
PickSubmission ==
    /\ m_pc = "start"
    /\ \E POST_ID \in ThreadIds \cup {NoId}, c \in Configs,
          threads \in DistinctLists(ThreadIds, MaxThreads),
          blocked \in {{}, {1}}, quiet \in {{}, {1}}, crowded \in {{}, {MaxThreads}},
          writable \in BOOLEAN :
          /\ POST_ID # NoId => threads = <<>> /\ blocked = {} /\ crowded = {}
          /\ crowded # {} => c.storymode /\ quiet = {}
          /\ LET loaded == LoadUsedComments(used_comments_json, writable)
                 r == ChooseSubmission(POST_ID, c, threads, blocked, quiet, crowded,
                                       unsuitable_threads_json, videos_json, writable)
                 picked == r.verdict = "picked"
                 reported ==
                     ~writable /\
                     r.unsuitable_file # ChooseSubmission(POST_ID, c, threads, blocked, quiet,
                                             crowded, unsuitable_threads_json,
                                             videos_json, TRUE).unsuitable_file
             IN  IF loaded.raised
                 THEN /\ m_pc' = "ended"
                      /\ m_outcome' = "write_raised"
                      /\ config' = NoConfig
                      /\ submission' = NoId
                      /\ used_comments_data' = <<>>
                      /\ unsuitable_thread_ids' = <<>>
                      /\ submission_was_already_done' = FALSE
                      /\ m_loaded' = {}
                      /\ UNCHANGED <<used_comments_json, unsuitable_threads_json,
                                     videos_json, m_post_id, m_start>>
                 ELSE /\ used_comments_json' = loaded.file
                      /\ unsuitable_threads_json' = r.unsuitable_file
                      /\ videos_json' = r.videos_file
                      /\ config' = IF picked THEN c ELSE NoConfig
                      /\ submission' = r.submission
                      /\ used_comments_data' =
                             IF picked THEN loaded.used_comments_data ELSE <<>>
                      /\ unsuitable_thread_ids' =
                             IF r.verdict = "raised" THEN <<>> ELSE r.unsuitable_thread_ids
                      /\ submission_was_already_done' = r.submission_was_already_done
                      /\ m_loaded' = IF picked
                                     THEN ListedInFile(used_comments_json, r.submission)
                                     ELSE {}
                      /\ m_pc' = IF picked THEN "picked"
                                 ELSE IF r.verdict = "raised" THEN "ended" ELSE "returned"
                      /\ m_outcome' = IF r.verdict = "raised" THEN "raised"
                                      ELSE IF reported THEN "write_reported" ELSE "none"
                      /\ m_post_id' = IF r.verdict = "raised" THEN NoId ELSE POST_ID
                      /\ m_start' = IF r.verdict = "raised" THEN NoStart
                                    ELSE [used_comments_json |-> used_comments_json,
                                          unsuitable_threads_json |-> unsuitable_threads_json,
                                          videos_json |-> videos_json]
    /\ content' = NoContent
    /\ m_mode' = "none"
    /\ m_all_used' = FALSE
    /\ UNCHANGED m_selected
    /\ UNCHANGED <<parserVars, tlVars, suitVars, bfsVars, undoneVars, raceVars, ttsVars, retryVars>>

\* Lines 593-599, 643-648 and 650-675: the return of get_subreddit_threads
\* in non-storymode with the ids of content["comments"]; `candidates` holds
\* the ids of the comments of the thread.  With no comment the thread is
\* marked unsuitable and None is returned; otherwise the ids are recorded in
\* used_comments.json and the content is returned.  The dump of lines
\* 659-661 is in no try: in a directory that is not writable it raises.
ReturnComments(comment_ids, candidates, mode, writable) ==
    LET marked == _save_unsuitable_thread_id(submission, unsuitable_thread_ids,
                                             unsuitable_threads_json, writable)
        recorded == RecordUsedComments(used_comments_data, submission, comment_ids)
        num_actually_newly_saved ==
            Cardinality(Range(comment_ids) \ Range(DictGet(used_comments_data, submission)))
        none == comment_ids = <<>> \/ num_actually_newly_saved = 0
        raises == comment_ids # <<>> /\ ~writable
    IN  /\ used_comments_json' =
               IF comment_ids = <<>> \/ raises THEN used_comments_json
               ELSE DictFile(recorded)
        /\ unsuitable_threads_json' =
               IF none THEN marked.file ELSE unsuitable_threads_json
        /\ unsuitable_thread_ids' =
               IF raises THEN <<>>
               ELSE IF none THEN marked.unsuitable_thread_ids ELSE unsuitable_thread_ids
        /\ content' =
               IF none \/ raises THEN NoContent
               ELSE [thread_id |-> submission, comments |-> comment_ids]
        /\ m_mode' = IF raises THEN "none" ELSE mode
        /\ m_pc' = IF raises THEN "ended" ELSE "returned"
        /\ m_outcome' = IF raises THEN "write_raised"
                        ELSE IF none /\ ~writable
                                /\ marked.unsuitable_thread_ids # unsuitable_thread_ids
                        THEN "write_reported" ELSE m_outcome
        /\ m_all_used' = (~raises /\ candidates # {}
                          /\ candidates \subseteq Range(DictGet(used_comments_data, submission)))
        /\ m_post_id' = IF raises THEN NoId ELSE m_post_id
        /\ m_start' = IF raises THEN NoStart ELSE m_start
        /\ m_loaded' = IF raises THEN {} ELSE m_loaded
        /\ submission' = NoId
        /\ used_comments_data' = <<>>
        /\ submission_was_already_done' = FALSE
        /\ config' = NoConfig
        /\ UNCHANGED <<videos_json, m_selected>>
        /\ UNCHANGED <<parserVars, tlVars, suitVars, bfsVars, undoneVars, raceVars, ttsVars, retryVars>>

\* Lines 466-474 and 650-675 in storymode: the post is the content, no
\* comment is selected and used_comments.json is not written.
SelectStorymode ==
    /\ m_pc = "picked"
    /\ config.storymode
    /\ content' = [thread_id |-> submission, comments |-> <<>>]
    /\ m_mode' = "storymode"
    /\ m_pc' = "returned"
    /\ submission' = NoId
    /\ used_comments_data' = <<>>
    /\ submission_was_already_done' = FALSE
    /\ config' = NoConfig
    /\ UNCHANGED <<used_comments_json, unsuitable_threads_json, videos_json,
                   unsuitable_thread_ids, m_outcome, m_loaded, m_selected, m_post_id,
                   m_all_used, m_start>>
    /\ UNCHANGED <<parserVars, tlVars, suitVars, bfsVars, undoneVars, raceVars, ttsVars, retryVars>>

\* max_comments_to_scan_for_keywords of a run of main.
RunScanCap == MaxComments + 1

\* The comments of a comment tree.
TreeComments(tr) ==
    { x \in Reachable(Range(tr.top), tr.forest) : tr.forest[x].kind = "Comment" }

\* Lines 553-599: read_comment_as_story with the keywords in the title, or
\* with no keywords: the first suitable comment of the BFS.
SelectViaBfs ==
    /\ m_pc = "picked"
    /\ ~config.storymode
    /\ config.read_comment_as_story
    /\ config.search_keywords # "not_in_title"
    /\ \E tr \in RunTrees, writable \in BOOLEAN :
          LET found == _find_first_suitable_praw_comment_via_bfs(
                           tr.top, tr.forest,
                           Range(DictGet(used_comments_data, submission)),
                           BfsThreadConfig, RunScanCap)
          IN  ReturnComments(IF found = NoId THEN <<>> ELSE <<found>>, TreeComments(tr),
                             "bfs", writable)

\* Lines 482-552 and 562-599: read_comment_as_story with keywords that are
\* not in the title: the first suitable comment among those that hold a
\* keyword.
SelectKeywordMatched ==
    /\ m_pc = "picked"
    /\ ~config.storymode
    /\ config.read_comment_as_story
    /\ config.search_keywords = "not_in_title"
    /\ \E tr \in RunTrees, matching \in {{}, {MaxComments}, RunNodes}, writable \in BOOLEAN :
          LET found == FirstSuitableDict(
                           keyword_matched_comments_list(tr.top, tr.forest, matching,
                                                         RunScanCap),
                           tr.forest,
                           Range(DictGet(used_comments_data, submission)),
                           BfsThreadConfig)
          IN  ReturnComments(IF found = NoId THEN <<>> ELSE <<found>>,
                             TreeComments(tr) \cap matching, "keyword", writable)

\* Lines 601-648: the standard mode takes every suitable comment of the
\* flattened comment list.
SelectStandard ==
    /\ m_pc = "picked"
    /\ ~config.storymode
    /\ ~config.read_comment_as_story
    /\ \E comments_for_standard_processing \in DistinctLists(RunNodes, MaxComments),
          writable \in BOOLEAN :
          ReturnComments(
              StandardComments(comments_for_standard_processing,
                               Range(DictGet(used_comments_data, submission)),
                               BfsThreadConfig),
              Range(comments_for_standard_processing), "standard", writable)

SelectedPairs == { <<content.thread_id, content.comments[i]>> : i \in 1..Len(content.comments) }

\* The locals of get_subreddit_threads are gone once main has its result.
MainForgets ==
    /\ unsuitable_thread_ids' = <<>>
    /\ m_mode' = "none"
    /\ m_loaded' = {}
    /\ m_post_id' = NoId
    /\ m_all_used' = FALSE
    /\ m_start' = NoStart
    /\ UNCHANGED <<config, submission, used_comments_data, submission_was_already_done,
                   content, m_selected>>
    /\ UNCHANGED <<parserVars, tlVars, suitVars, bfsVars, undoneVars, raceVars, ttsVars, retryVars>>

\* main.py lines 70-74: get_subreddit_threads returned None.
MainNoPost ==
    /\ m_pc = "returned"
    /\ content = NoContent
    /\ m_pc' = "ended"
    /\ m_outcome' = "no_post"
    /\ UNCHANGED <<used_comments_json, unsuitable_threads_json, videos_json>>
    /\ MainForgets

\* main.py lines 76-95 with every stage succeeding: make_final_video ends
\* with save_data (final_video.py line 596).
MainRenders ==
    /\ m_pc = "returned"
    /\ content # NoContent
    /\ videos_json' = save_data(videos_json, content.thread_id)
    /\ m_pc' = "ended"
    /\ m_outcome' = "rendered"
    /\ UNCHANGED <<used_comments_json, unsuitable_threads_json>>
    /\ MainForgets

\* videos.json after a run of main that stops before line 596 of
\* final_video.py: save_text_to_mp3, get_screenshots_of_reddit_posts and the
\* background functions do not write it, main returns at line 83 without
\* it, and an ffmpeg.Error ends the process at lines 554-556 or 587-589.
VideosAfterFailureSaves(file, reddit_id) == save_data(file, reddit_id)

VideosAfterFailure(file, reddit_id) == file

\* main.py lines 76-95 with a stage that raises (the narration, the
\* screenshots, the final video), or an ffmpeg error in make_final_video
\* (final_video.py lines 554-556): the run ends there, before save_data.
MainRenderFails ==
    /\ m_pc = "returned"
    /\ content # NoContent
    /\ m_pc' = "ended"
    /\ m_outcome' = "render_failed"
    /\ videos_json' = VideosAfterFailure(videos_json, content.thread_id)
    /\ UNCHANGED <<used_comments_json, unsuitable_threads_json>>
    /\ MainForgets

\* main.py lines 99-116 and 155-165: main is called again, by run_many, for
\* the next post id, or when the program is started again.  Only the files
\* are left of the run before.
MainAgain ==
    /\ m_pc = "ended"
    /\ m_pc' = "start"
    /\ content' = NoContent
    /\ m_outcome' = "none"
    /\ m_selected' = m_selected \cup SelectedPairs
    /\ UNCHANGED <<used_comments_json, unsuitable_threads_json, videos_json, config,
                   m_mode, m_loaded, submission, used_comments_data,
                   unsuitable_thread_ids, submission_was_already_done, m_post_id,
                   m_all_used, m_start>>
    /\ UNCHANGED <<parserVars, tlVars, suitVars, bfsVars, undoneVars, raceVars, ttsVars, retryVars>>

MainNext ==
    \/ PickSubmission
    \/ SelectStorymode
    \/ SelectViaBfs
    \/ SelectKeywordMatched
    \/ SelectStandard
    \/ MainNoPost
    \/ MainRenders
    \/ MainRenderFails
    \/ MainAgain

(***************************************************************************)
(* get_subreddit_undone, one step per call: the first call gets the        *)
(* listing of the caller, each recursive call a widened listing that       *)
(* subreddit.top returns.                                                  *)
(***************************************************************************)
\* The lists of ids of videos.json and of unsuitable_threads.json a call
\* can find.
DoneLists == {<<>>, <<1>>, ListOfSet(ThreadIds)}
UnsuitableLists == {<<>>, <<MaxThreads>>}

UndoneInit ==
    /\ u_pc = "call"
    /\ u_submissions \in DistinctLists(ThreadIds, MaxThreads)
    /\ u_times_checked = 0
    /\ u_unsuitable \in UnsuitableLists
    /\ u_done_videos \in DoneLists
    /\ u_storymode \in BOOLEAN
    /\ u_quiet \in {{}, {1}}
    /\ u_requested = <<>>
    /\ u_result = NoId

UndoneIdle ==
    /\ u_pc = "off"
    /\ u_submissions = <<>>
    /\ u_times_checked = 0
    /\ u_unsuitable = <<>>
    /\ u_done_videos = <<>>
    /\ u_storymode = FALSE
    /\ u_quiet = {}
    /\ u_requested = <<>>
    /\ u_result = NoId

\* utils/subreddit.py lines 19-67 of the current call.
UndoneScan ==
    ScanSubmissions(u_submissions, u_unsuitable, u_done_videos, u_storymode, u_quiet, {})

\* Line 67: the loop reaches a submission it rejects for nothing, and every
\* call on the stack returns it.
UndoneReturnsSubmission ==
    /\ u_pc = "call"
    /\ UndoneScan.submission # NoId
    /\ u_result' = UndoneScan.submission
    /\ u_unsuitable' = UndoneScan.unsuitable_thread_ids
    /\ u_pc' = "done"
    /\ UNCHANGED <<u_submissions, u_times_checked, u_done_videos, u_storymode, u_quiet,
                   u_requested>>
    /\ UNCHANGED <<parserVars, tlVars, suitVars, bfsVars, mainVars, raceVars, ttsVars, retryVars>>

\* Lines 77-89: every submission of the listing was rejected and a time
\* filter is left: subreddit.top is called with it and the function calls
\* itself on the listing returned.  VALID_TIME_FILTERS[index] of the code is
\* the entry index + 1 of the sequence.
UndoneWidens ==
    /\ u_pc = "call"
    /\ UndoneScan.submission = NoId
    /\ LET index == u_times_checked + 1 IN
       /\ ~NoFilterLeft(index)
       /\ \E listing \in DistinctLists(ThreadIds, MaxThreads) :
             u_submissions' = listing
       /\ u_times_checked' = index
       /\ u_requested' = Append(u_requested,
              [time_filter |-> VALID_TIME_FILTERS[index + 1],
               limit |-> IF index = 0 THEN 50 ELSE index + 1 * 50])
    /\ u_unsuitable' = UndoneScan.unsuitable_thread_ids
    /\ UNCHANGED <<u_pc, u_done_videos, u_storymode, u_quiet, u_result>>
    /\ UNCHANGED <<parserVars, tlVars, suitVars, bfsVars, mainVars, raceVars, ttsVars, retryVars>>

\* Lines 77-79: every submission was rejected and no time filter is left.
UndoneReturnsNone ==
    /\ u_pc = "call"
    /\ UndoneScan.submission = NoId
    /\ NoFilterLeft(u_times_checked + 1)
    /\ u_result' = NoId
    /\ u_unsuitable' = UndoneScan.unsuitable_thread_ids
    /\ u_pc' = "done"
    /\ UNCHANGED <<u_submissions, u_times_checked, u_done_videos, u_storymode, u_quiet,
                   u_requested>>
    /\ UNCHANGED <<parserVars, tlVars, suitVars, bfsVars, mainVars, raceVars, ttsVars, retryVars>>

UndoneNext == UndoneReturnsSubmission \/ UndoneWidens \/ UndoneReturnsNone

\* The submissions the loop of lines 19-67 rejects: those videos.json
\* lists and, in non-storymode, those the unsuitable list holds and those
\* with too few comments.
Rejected(s) ==
    \/ s \in Range(u_done_videos)
    \/ ~u_storymode /\ (s \in Range(u_unsuitable) \/ s \in u_quiet)

\* The first submission of a listing that is not rejected, or None.
FirstNotRejected(l) ==
    IF \E i \in 1..Len(l) : ~Rejected(l[i])
    THEN l[CHOOSE i \in 1..Len(l) :
               ~Rejected(l[i]) /\ \A j \in 1..(i - 1) : Rejected(l[j])]
    ELSE NoId

\* The time filters of the widened listings: the entries 1..5 of the
\* Python list VALID_TIME_FILTERS.
WidenedFilters == <<"hour", "month", "week", "year", "all">>

\* C18: get_subreddit_undone returns the first submission that is not
\* rejected of the first listing that holds one; a widened listing is
\* requested only when every submission of the listing before it was
\* rejected; at most 5 widened listings are requested, with the time filters
\* hour, month, week, year, all, each once and in this order; None is
\* returned only after the 5 of them; and the function returns.
C18_WidensFiveTimesThenNone ==
    /\ [](/\ Len(u_requested) <= 5
          /\ \A i \in 1..Len(u_requested) : u_requested[i].time_filter = WidenedFilters[i])
    /\ [](u_pc = "done" =>
            /\ u_result = FirstNotRejected(u_submissions)
            /\ u_result = NoId => Len(u_requested) = 5)
    /\ [][u_requested' # u_requested =>
            /\ FirstNotRejected(u_submissions) = NoId
            /\ Len(u_requested') = Len(u_requested) + 1]_vars
    /\ <>(u_pc = "done")

\* Every submission of the first listing and of four widened listings was
\* rejected, and the fifth widened listing, that of the filter "all", holds
\* the submission returned after a rejected one.
C18_Witness ==
    /\ u_pc = "done"
    /\ u_result # NoId
    /\ Len(u_requested) = 5
    /\ u_requested[5].time_filter = "all"
    /\ Len(u_submissions) = 2
    /\ u_result = u_submissions[2]

(***************************************************************************)
(* Two processes run get_subreddit_threads in standard mode at the same    *)
(* time on the same data directory.  A step of a run is what it does up to *)
(* and including one access to used_comments.json: the load of lines       *)
(* 245-267, and the selection with the dump of lines 652-661.              *)
(***************************************************************************)
Processes == {1, 2}

\* used_comments.json as earlier runs can have left it.
RaceFiles == {AbsentFile, DictFile(<<>>), DictFile(<< <<1>> >>)}

RaceInit ==
    /\ r_pc = [p \in Processes |-> "start"]
    /\ r_file \in RaceFiles
    /\ r_thread \in [Processes -> ThreadIds]
    /\ r_data = [p \in Processes |-> <<>>]
    /\ r_selected = [p \in Processes |-> <<>>]

RaceIdle ==
    /\ r_pc = [p \in Processes |-> "off"]
    /\ r_file = AbsentFile
    /\ r_thread = [p \in Processes |-> NoId]
    /\ r_data = [p \in Processes |-> <<>>]
    /\ r_selected = [p \in Processes |-> <<>>]

\* Lines 245-267: run p reads used_comments.json.
RaceLoad(p) ==
    /\ r_pc[p] = "start"
    /\ LET loaded == LoadUsedComments(r_file, TRUE) IN
       /\ r_file' = loaded.file
       /\ r_data' = [r_data EXCEPT ![p] = loaded.used_comments_data]
    /\ r_pc' = [r_pc EXCEPT ![p] = "loaded"]
    /\ UNCHANGED <<r_thread, r_selected>>
    /\ UNCHANGED <<parserVars, tlVars, suitVars, bfsVars, mainVars, undoneVars, ttsVars, retryVars>>

\* Lines 434 and 601-661: run p takes the suitable comments of the thread
\* that its copy of the dict does not list, and dumps its copy with their
\* ids added; with no comment taken nothing is dumped.
RaceSelectAndSave(p) ==
    /\ r_pc[p] = "loaded"
    /\ \E comments_for_standard_processing \in DistinctLists(RunNodes, MaxComments) :
          LET ids == StandardComments(comments_for_standard_processing,
                                      Range(DictGet(r_data[p], r_thread[p])),
                                      BfsThreadConfig)
          IN  /\ r_selected' = [r_selected EXCEPT ![p] = ids]
              /\ r_file' = IF ids = <<>> THEN r_file
                           ELSE DictFile(RecordUsedComments(r_data[p], r_thread[p], ids))
    /\ r_pc' = [r_pc EXCEPT ![p] = "done"]
    /\ UNCHANGED <<r_thread, r_data>>
    /\ UNCHANGED <<parserVars, tlVars, suitVars, bfsVars, mainVars, undoneVars, ttsVars, retryVars>>

RaceNext == \E p \in Processes : RaceLoad(p) \/ RaceSelectAndSave(p)

BothRunsDone == \A p \in Processes : r_pc[p] = "done"

\* C22: when two runs of get_subreddit_threads overlap, they do not both
\* return the same comment id of the same thread, and every id a run
\* returned is listed under its thread in used_comments.json once both runs
\* are over.
C22_AsStated ==
    BothRunsDone =>
        /\ r_thread[1] = r_thread[2] =>
              Range(r_selected[1]) \cap Range(r_selected[2]) = {}
        /\ \A p \in Processes :
              Range(r_selected[p]) \subseteq ListedInFile(r_file, r_thread[p])

\* Both runs chose the same thread and returned the same comment id, and an
\* id that run 1 returned is not listed in used_comments.json: the dump of
\* run 2 wrote the dict it had loaded before run 1 saved.
C22_Witness ==
    /\ BothRunsDone
    /\ r_thread[1] = r_thread[2]
    /\ Range(r_selected[1]) \cap Range(r_selected[2]) # {}
    /\ Range(r_selected[1]) \ ListedInFile(r_file, r_thread[1]) # {}

(***************************************************************************)
(* get_subreddit_threads, lines 323-364 and 369-398: the retry loop, one   *)
(* pass of the loop per step.  Every submission has more comments than     *)
(* min_comments and max_comments_for_post is unset.                        *)
(***************************************************************************)
RetryConfigs == {c \in Configs : ~c.read_comment_as_story}

RetryInit ==
    /\ l_pc = "loop"
    /\ l_config \in RetryConfigs
    /\ l_threads \in DistinctLists(ThreadIds, MaxThreads)
    /\ l_threads # <<>>
    /\ l_passes = 0
    /\ l_unsuitable \in UnsuitableLists
    /\ l_file = ListFile(l_unsuitable)
    /\ l_done_videos \in {<<>>, <<1>>}
    /\ l_blocked \in SUBSET ThreadIds
    /\ l_obtained = <<>>
    /\ l_saved = {}
    /\ l_submission = NoId

RetryIdle ==
    /\ l_pc = "off"
    /\ l_config = NoConfig
    /\ l_threads = <<>>
    /\ l_passes = 0
    /\ l_unsuitable = <<>>
    /\ l_file = AbsentFile
    /\ l_done_videos = <<>>
    /\ l_blocked = {}
    /\ l_obtained = <<>>
    /\ l_saved = {}
    /\ l_submission = NoId

\* Lines 331-363 and 379-396: the submission is rejected by the keyword gate
\* of storymode or by the blocked-term filter on its title or its content.
FilterRejects(c, submission_id, blocked) ==
    \/ c.storymode /\ c.search_keywords = "not_in_title"
    \/ contains_swear_word(Title(submission_id, blocked)) # None

\* Lines 384 and 394: the hot listing is fetched again after a rejection;
\* the keyword search keeps its list.
ThreadsAfterRejection(c, threads) ==
    IF c.search_keywords = "none" THEN DistinctLists(ThreadIds, MaxThreads) \ {<<>>}
    ELSE {threads}

\* One pass of the loop: get_subreddit_undone returns None and the loop is
\* left with no submission, or returns a submission that is rejected, saved
\* as unsuitable and followed by the next pass, or one that is kept.
RetryPass ==
    /\ l_pc = "loop"
    /\ l_passes < max_retries
    /\ LET r == get_subreddit_undone(l_threads, 0, l_unsuitable, l_done_videos,
                                     l_config.storymode, {}, {})
       IN  IF r.submission = NoId
           THEN /\ l_submission' = NoId
                /\ l_pc' = "done"
                /\ l_obtained' = Append(l_obtained, NoId)
                /\ l_unsuitable' = r.unsuitable_thread_ids
                /\ UNCHANGED <<l_threads, l_file, l_saved>>
           ELSE IF FilterRejects(l_config, r.submission, l_blocked)
           THEN \E writable \in BOOLEAN :
                   LET saved == _save_unsuitable_thread_id(r.submission,
                                    r.unsuitable_thread_ids, l_file, writable)
                   IN  /\ l_unsuitable' = saved.unsuitable_thread_ids
                       /\ l_file' = saved.file
                       /\ l_submission' = NoId
                       /\ l_obtained' = Append(l_obtained, r.submission)
                       /\ l_saved' = l_saved \cup {l_passes + 1}
                       /\ l_threads' \in ThreadsAfterRejection(l_config, l_threads)
                       /\ UNCHANGED l_pc
           ELSE /\ l_submission' = r.submission
                /\ l_pc' = "done"
                /\ l_obtained' = Append(l_obtained, r.submission)
                /\ l_unsuitable' = r.unsuitable_thread_ids
                /\ UNCHANGED <<l_threads, l_file, l_saved>>
    /\ l_passes' = l_passes + 1
    /\ UNCHANGED <<l_config, l_done_videos, l_blocked>>
    /\ UNCHANGED <<parserVars, tlVars, suitVars, bfsVars, mainVars, undoneVars, raceVars, ttsVars>>

\* range(max_retries) is exhausted: submission is None.
RetryExhausted ==
    /\ l_pc = "loop"
    /\ l_passes = max_retries
    /\ l_pc' = "done"
    /\ UNCHANGED <<l_config, l_threads, l_passes, l_unsuitable, l_file, l_done_videos,
                   l_blocked, l_obtained, l_saved, l_submission>>
    /\ UNCHANGED <<parserVars, tlVars, suitVars, bfsVars, mainVars, undoneVars, raceVars, ttsVars>>

RetryNext == RetryPass \/ RetryExhausted

\* C28 as stated: a submission that a pass of the loop rejected and handed
\* to _save_unsuitable_thread_id is not obtained again from
\* get_subreddit_undone by a later pass of the same call.
C28_AsStated ==
    \A i \in l_saved : \A j \in (i + 1)..Len(l_obtained) :
        l_obtained[j] # l_obtained[i]

\* C28's case: in storymode the five passes obtained the same submission,
\* rejected it five times, and the loop ended with no submission although
\* the listing held another one that nothing rejects.
C28_Witness ==
    /\ l_pc = "done"
    /\ l_config.storymode
    /\ l_passes = max_retries
    /\ l_saved = 1..max_retries
    /\ \A j \in 1..max_retries : l_obtained[j] = l_obtained[1]
    /\ l_submission = NoId
    /\ \E t \in Range(l_threads) :
          /\ t # l_obtained[1]
          /\ ~FilterRejects(l_config, t, l_blocked)
          /\ ~already_done(l_done_videos, t)

\* The part of C28 the code keeps: outside storymode a rejected submission
\* is skipped by every later pass.
C28_NonStorymode ==
    ~l_config.storymode => C28_AsStated

(***************************************************************************)
(* TTS/engine_wrapper.py: TTSEngine.run.  Durations are whole seconds.     *)
(***************************************************************************)
MaxTtsComments == 3   \* comments of reddit_object["comments"]
MaxSegments == 2      \* entries of reddit_object["audio_segments"]
MaxClipDur == 2       \* seconds of one rendered clip

\* Line 17.
DEFAULT_MAX_LENGTH == 50

MaxLengths == {1, 3, DEFAULT_MAX_LENGTH}

TtsModes == {"standard", "storymode0", "storymode1", "comment_story"}

NotReturned == -2

\* A comment (or a post) is rendered by one call of call_tts, or by
\* split_post when it is longer than tts_module.max_chars: two parts here.
ClipsPerText == {1, 2}

RECURSIVE ListsOver(_, _)
ListsOver(S, n) ==
    IF n = 0 THEN {<<>>}
    ELSE ListsOver(S, n - 1) \cup
         {Append(l, x) : l \in {m \in ListsOver(S, n - 1) : Len(m) = n - 1}, x \in S}

TtsInit ==
    /\ t_pc = "title"
    /\ t_mode \in TtsModes
    /\ t_comments \in ListsOver(ClipsPerText, MaxTtsComments)
    /\ t_mode # "standard" => t_comments = <<>>
    /\ t_segments \in 0..MaxSegments
    /\ t_mode \notin {"storymode1", "comment_story"} => t_segments = 0
    /\ t_next = 0
    /\ self_max_length \in MaxLengths
    /\ self_length = 0
    /\ self_last_clip_length = 0
    /\ idx = 0
    /\ actual_segments_processed = 0
    /\ final_idx = NotReturned
    /\ t_clips = <<>>
    /\ t_uncounted = {}

TtsIdle ==
    /\ t_pc = "off"
    /\ t_mode = "off"
    /\ t_comments = <<>>
    /\ t_segments = 0
    /\ t_next = 0
    /\ self_max_length = 0
    /\ self_length = 0
    /\ self_last_clip_length = 0
    /\ idx = 0
    /\ actual_segments_processed = 0
    /\ final_idx = NotReturned
    /\ t_clips = <<>>
    /\ t_uncounted = {}

\* The file {path}/{filename}.mp3: title, postaudio, audio_segment-{n},
\* {n}, and {n}-{part}.part for the clips of split_post.
Mp3(base, n, part) == [base |-> base, n |-> n, part |-> part]
WholeFile == -1

\* Lines 216-232: call_tts renders the file and probes its duration d; when
\* AudioFileClip raises, the bare except sets self.length to 0.  st holds
\* length, last_clip_length, the clips rendered and those not counted.
call_tts(st, filename, d, probed) ==
    [length |-> IF probed THEN st.length + d ELSE 0,
     last_clip_length |-> IF probed THEN d ELSE st.last_clip_length,
     clips |-> Append(st.clips, [filename |-> filename, d |-> d, probed |-> probed]),
     uncounted |-> IF probed THEN st.uncounted ELSE 1..(Len(st.clips) + 1)]

\* The engine's fields, as call_tts takes them.
Engine ==
    [length |-> self_length, last_clip_length |-> self_last_clip_length,
     clips |-> t_clips, uncounted |-> t_uncounted]

\* The text is rendered by call_tts under `name`, or by split_post (lines
\* 175-214) in `parts` clips name-0.part, name-1.part.
RenderText(st, name, parts, d1, d2, p1, p2) ==
    IF parts = 1
    THEN call_tts(st, name, d1, p1)
    ELSE call_tts(call_tts(st, [name EXCEPT !.part = 0], d1, p1),
                  [name EXCEPT !.part = 1], d2, p2)

SetEngine(st) ==
    /\ self_length' = st.length
    /\ self_last_clip_length' = st.last_clip_length
    /\ t_clips' = st.clips
    /\ t_uncounted' = st.uncounted

BranchOf(mode) ==
    IF mode = "standard" THEN "comments"
    ELSE IF mode = "storymode0" THEN "post"
    ELSE "segments"

\* Lines 70-76: the title is rendered, idx = 0.
TtsTitle ==
    /\ t_pc = "title"
    /\ \E d \in 1..MaxClipDur, probed \in BOOLEAN :
          SetEngine(call_tts(Engine, Mp3("title", 0, WholeFile), d, probed))
    /\ idx' = 0
    /\ t_pc' = BranchOf(t_mode)
    /\ UNCHANGED <<t_mode, t_comments, t_segments, t_next, self_max_length,
                   actual_segments_processed, final_idx>>
    /\ UNCHANGED <<parserVars, tlVars, suitVars, bfsVars, mainVars, undoneVars, raceVars, retryVars>>

\* Lines 78-84: storymode method 0 renders the post as postaudio.
TtsPost ==
    /\ t_pc = "post"
    /\ \E parts \in ClipsPerText, d1, d2 \in 1..MaxClipDur, p1, p2 \in BOOLEAN :
          /\ parts = 1 => d2 = 1 /\ p2
          /\ SetEngine(RenderText(Engine, Mp3("postaudio", 0, WholeFile), parts, d1, d2,
                                  p1, p2))
    /\ t_pc' = "out"
    /\ UNCHANGED <<t_mode, t_comments, t_segments, t_next, self_max_length, idx,
                   actual_segments_processed, final_idx>>
    /\ UNCHANGED <<parserVars, tlVars, suitVars, bfsVars, mainVars, undoneVars, raceVars, retryVars>>

\* Lines 86-91 and 97-108: one pass of the loop over audio_segments_text.
TtsSegment ==
    /\ t_pc = "segments"
    /\ t_next < t_segments
    /\ \E d \in 1..MaxClipDur, probed \in BOOLEAN :
          SetEngine(call_tts(Engine, Mp3("audio_segment", t_next, WholeFile), d, probed))
    /\ idx' = IF t_mode = "storymode1" THEN t_next ELSE idx
    /\ actual_segments_processed' =
           IF t_mode = "comment_story" THEN actual_segments_processed + 1
           ELSE actual_segments_processed
    /\ t_next' = t_next + 1
    /\ UNCHANGED <<t_pc, t_mode, t_comments, t_segments, self_max_length, final_idx>>
    /\ UNCHANGED <<parserVars, tlVars, suitVars, bfsVars, mainVars, undoneVars, raceVars, retryVars>>

\* Lines 92-95: storymode method 1 after the loop.
TtsStoryDone ==
    /\ t_pc = "segments"
    /\ t_mode = "storymode1"
    /\ t_next = t_segments
    /\ idx' = IF t_segments > 0 THEN t_segments - 1 ELSE -1
    /\ t_pc' = "out"
    /\ UNCHANGED <<t_mode, t_comments, t_segments, t_next, self_max_length, self_length,
                   self_last_clip_length, actual_segments_processed, final_idx, t_clips,
                   t_uncounted>>
    /\ UNCHANGED <<parserVars, tlVars, suitVars, bfsVars, mainVars, undoneVars, raceVars, retryVars>>

\* The duration of the files audio_segment-0.mp3 ... concatenated in 0.mp3.
RECURSIVE SegmentsDuration(_)
SegmentsDuration(clips) ==
    IF clips = <<>> THEN 0
    ELSE (IF Head(clips).filename.base = "audio_segment" THEN Head(clips).d ELSE 0)
         + SegmentsDuration(Tail(clips))

\* Lines 110-135: read_first_comment_as_story after the loop.  The segments
\* are concatenated in 0.mp3 and, unless AudioFileClip raises on that file,
\* self.length becomes the duration of 0.mp3.
LengthAfterConcat(length, clips, concat_probed) ==
    IF concat_probed THEN SegmentsDuration(clips) ELSE length

TtsConcat ==
    /\ t_pc = "segments"
    /\ t_mode = "comment_story"
    /\ t_next = t_segments
    /\ IF t_segments > 0
       THEN /\ \E concat_probed \in BOOLEAN :
                  /\ self_length' = LengthAfterConcat(self_length, t_clips, concat_probed)
                  /\ self_last_clip_length' =
                         IF concat_probed THEN SegmentsDuration(t_clips)
                         ELSE self_last_clip_length
                  /\ t_uncounted' =
                         IF concat_probed
                         THEN {i \in 1..Len(t_clips) : t_clips[i].filename.base = "title"}
                         ELSE t_uncounted
            /\ idx' = 0
       ELSE /\ idx' = -1
            /\ UNCHANGED <<self_length, self_last_clip_length, t_uncounted>>
    /\ t_pc' = "out"
    /\ UNCHANGED <<t_mode, t_comments, t_segments, t_next, self_max_length,
                   actual_segments_processed, final_idx, t_clips>>
    /\ UNCHANGED <<parserVars, tlVars, suitVars, bfsVars, mainVars, undoneVars, raceVars, retryVars>>

\* Line 140: the loop stops when the length is over max_length and idx
\* is over 1.
LengthLimitReached(length, max_length, i) == length > max_length /\ i > 1

\* Lines 137-149: one pass of the loop over the comments: the break at the
\* length limit, or the comment rendered as {idx}.mp3.
TtsComment ==
    /\ t_pc = "comments"
    /\ t_next < Len(t_comments)
    /\ IF LengthLimitReached(self_length, self_max_length, t_next)
       THEN /\ self_length' = self_length - self_last_clip_length
            /\ idx' = t_next - 1
            /\ t_pc' = "out"
            /\ t_uncounted' = t_uncounted \cup {Len(t_clips)}
            /\ UNCHANGED <<t_next, self_last_clip_length, t_clips>>
       ELSE /\ \E d1, d2 \in 1..MaxClipDur, p1, p2 \in BOOLEAN :
                  /\ t_comments[t_next + 1] = 1 => d2 = 1 /\ p2
                  /\ SetEngine(RenderText(Engine, Mp3("comment", t_next, WholeFile),
                                          t_comments[t_next + 1], d1, d2, p1, p2))
            /\ idx' = t_next
            /\ t_next' = t_next + 1
            /\ UNCHANGED t_pc
    /\ UNCHANGED <<t_mode, t_comments, t_segments, self_max_length,
                   actual_segments_processed, final_idx>>
    /\ UNCHANGED <<parserVars, tlVars, suitVars, bfsVars, mainVars, undoneVars, raceVars, retryVars>>

\* The loop over the comments is exhausted.
TtsCommentsDone ==
    /\ t_pc = "comments"
    /\ t_next = Len(t_comments)
    /\ t_pc' = "out"
    /\ UNCHANGED <<t_mode, t_comments, t_segments, t_next, self_max_length, self_length,
                   self_last_clip_length, idx, actual_segments_processed, final_idx, t_clips,
                   t_uncounted>>
    /\ UNCHANGED <<parserVars, tlVars, suitVars, bfsVars, mainVars, undoneVars, raceVars, retryVars>>

\* Lines 158-168: final_idx.
FinalIdx(mode, segments, processed, i, comments_rendered) ==
    IF mode = "storymode1" THEN segments
    ELSE IF mode = "comment_story" THEN (IF processed > 0 THEN 1 ELSE 0)
    ELSE i

\* Line 173: return self.length, final_idx.
TtsReturn ==
    /\ t_pc = "out"
    /\ final_idx' = FinalIdx(t_mode, t_segments, actual_segments_processed, idx, t_next)
    /\ t_pc' = "returned"
    /\ UNCHANGED <<t_mode, t_comments, t_segments, t_next, self_max_length, self_length,
                   self_last_clip_length, idx, actual_segments_processed, t_clips,
                   t_uncounted>>
    /\ UNCHANGED <<parserVars, tlVars, suitVars, bfsVars, mainVars, undoneVars, raceVars, retryVars>>

TtsNext ==
    \/ TtsTitle
    \/ TtsPost
    \/ TtsSegment
    \/ TtsStoryDone
    \/ TtsConcat
    \/ TtsComment
    \/ TtsCommentsDone
    \/ TtsReturn

(***************************************************************************)
(* Claims about TTSEngine.run                                              *)
(***************************************************************************)
RECURSIVE ClipsDuration(_, _)
ClipsDuration(clips, n) ==
    IF n = 0 THEN 0 ELSE clips[n].d + ClipsDuration(clips, n - 1)

\* AudioFileClip raised on none of the clips rendered.
AllProbed == \A n \in 1..Len(t_clips) : t_clips[n].probed

\* The clips call_tts rendered for comment i.
ClipsOfComment(i) ==
    {n \in 1..Len(t_clips) :
        t_clips[n].filename.base = "comment" /\ t_clips[n].filename.n = i}

\* The comments whose audio was rendered and is counted in self.length.
CountedComments ==
    {i \in 0..(Len(t_comments) - 1) :
        ClipsOfComment(i) # {} /\ ClipsOfComment(i) \cap t_uncounted = {}}

\* C27 as stated: in the standard mode the second value run returns is the
\* number of comments whose audio 0.mp3 ... was rendered and is counted in
\* the length returned.
C27_AsStated ==
    (t_pc = "returned" /\ t_mode = "standard") =>
        final_idx = Cardinality(CountedComments)

\* C27's case: two comments, both rendered and probed, the loop ends by
\* exhausting the list, the length returned counts the title and both
\* comments, and the count returned is 1.
C27_Witness ==
    /\ t_pc = "returned"
    /\ t_mode = "standard"
    /\ Len(t_comments) = 2
    /\ t_next = 2
    /\ AllProbed
    /\ t_uncounted = {}
    /\ self_length = ClipsDuration(t_clips, Len(t_clips))
    /\ Cardinality(CountedComments) = 2
    /\ final_idx = 1

\* The part of C27 the code keeps: when the loop ends at the length limit
\* and every probe succeeded, the count returned is the number of comments
\* counted in the length.
C27_AtLengthLimit ==
    (t_pc = "returned" /\ t_mode = "standard" /\ t_next < Len(t_comments) /\ AllProbed) =>
        /\ final_idx = Cardinality(CountedComments)
        /\ self_length = ClipsDuration(t_clips, Len(t_clips) - 1)

\* The end of the last overlay window of make_final_video: the title's
\* duration plus the durations of the audio segments (final_video.py lines
\* 310-365).
LastOverlayEnd == ClipsDuration(t_clips, Len(t_clips))

StoryTimeline == t_mode \in {"storymode1", "comment_story"}

\* C29 as stated: in every mode the length run returns is the duration of
\* the title clip plus the durations of all the clips call_tts rendered, so
\* that in the modes with a segment timeline the video length is not less
\* than the end of the last overlay window.
C29_AsStated ==
    t_pc = "returned" =>
        /\ self_length = ClipsDuration(t_clips, Len(t_clips))
        /\ StoryTimeline => self_length >= LastOverlayEnd

\* C29's case: read_first_comment_as_story with two segments, every probe
\* successful: the length returned is the duration of the two segments, less
\* than the end of the last overlay window by the title's duration.
C29_Witness ==
    /\ t_pc = "returned"
    /\ t_mode = "comment_story"
    /\ t_segments = 2
    /\ Len(t_clips) = 3
    /\ AllProbed
    /\ self_length = SegmentsDuration(t_clips)
    /\ self_length + t_clips[1].d = LastOverlayEnd
    /\ self_length < LastOverlayEnd

\* The part of C29 the code keeps: in storymode, when every probe succeeded,
\* the length returned is the sum of the title and of every clip rendered.
C29_Storymode ==
    (t_pc = "returned" /\ t_mode \in {"storymode0", "storymode1"} /\ AllProbed) =>
        /\ self_length = ClipsDuration(t_clips, Len(t_clips))
        /\ self_length >= LastOverlayEnd

(***************************************************************************)
(* Claims on the runs of main                                              *)
(***************************************************************************)
ReturnedComments ==
    /\ m_pc = "returned"
    /\ content # NoContent
    /\ m_mode \in {"bfs", "keyword", "standard"}

\* C1: in non-storymode, in each of the three selection modes, no comment id
\* that used_comments.json listed under the chosen thread when the run
\* loaded it is in the returned content["comments"]; so no comment id that
\* an earlier run returned for the thread is returned again.
C1_NoUsedCommentReselected ==
    ReturnedComments =>
        /\ Range(content.comments) \cap m_loaded = {}
        /\ \A i \in 1..Len(content.comments) :
              <<content.thread_id, content.comments[i]>> \notin m_selected

\* A run returns a comment of a thread for which an earlier run returned
\* another comment, which used_comments.json listed when this run loaded it.
C1_Witness ==
    /\ ReturnedComments
    /\ m_loaded # {}
    /\ \E id \in m_loaded : <<content.thread_id, id>> \in m_selected
    /\ content.comments # <<>>

RenderFailed == m_pc = "ended" /\ m_outcome = "render_failed"

\* C10: when the narration, the screenshots or the final render fail after
\* get_subreddit_threads returned its selection, the comment ids selected in
\* the run are not in used_comments.json afterwards.
C10_AsStated ==
    RenderFailed =>
        Range(content.comments) \cap ListedInFile(used_comments_json, content.thread_id) = {}

\* A run whose rendering failed after comments were selected.
C10_Witness ==
    /\ RenderFailed
    /\ content.comments # <<>>

FileAfterRecording(file, thread_id, comment_ids) ==
    DictFile(RecordUsedComments(LoadUsedComments(file, TRUE).used_comments_data,
                                thread_id, comment_ids))

\* C12: whatever used_comments.json holds, recording a non-empty set of
\* comment ids for a thread and then recording the same set for the same
\* thread again, in any order, leaves the file as the first recording left
\* it.
C12_RecordingTwiceIsRecordingOnce ==
    \A t \in ThreadIds, ids \in DistinctLists(RunNodes, MaxComments),
       again \in DistinctLists(RunNodes, MaxComments) :
        ids # <<>> /\ Range(again) = Range(ids) =>
            LET once == FileAfterRecording(used_comments_json, t, ids)
            IN  FileAfterRecording(once, t, again) = once

\* A run has just recorded the ids it returns, for a thread that had ids in
\* the file before, and recording them once more gives the same file.
C12_Witness ==
    /\ m_pc = "returned"
    /\ content.comments # <<>>
    /\ m_loaded # {}
    /\ Cardinality(ListedInFile(used_comments_json, content.thread_id)) > 1
    /\ FileAfterRecording(used_comments_json, content.thread_id, content.comments)
           = used_comments_json

\* get_subreddit_threads has returned from a thread that has comments, each
\* of them listed under the thread in used_comments.json when the run
\* loaded it.
AllCandidatesUsed == m_pc = "returned" /\ m_all_used

\* C13: when every candidate comment of the chosen thread is already in the
\* consumed set of the thread, get_subreddit_threads returns None and
\* neither used_comments.json nor unsuitable_threads.json differs from what
\* it held when the run started.
C13_AsStated ==
    AllCandidatesUsed =>
        /\ content = NoContent
        /\ used_comments_json = m_start.used_comments_json
        /\ unsuitable_threads_json = m_start.unsuitable_threads_json

\* The part of C13 the code keeps: None is returned and used_comments.json
\* is as the run found it.
C13_ReturnsNoneAndKeepsUsed ==
    AllCandidatesUsed =>
        /\ content = NoContent
        /\ used_comments_json = m_start.used_comments_json

\* Every comment of the thread was used, no write failed, and
\* unsuitable_threads.json lists an id it did not list when the run started.
C13_Witness ==
    /\ AllCandidatesUsed
    /\ m_outcome = "none"
    /\ content = NoContent
    /\ ListedUnsuitable(unsuitable_threads_json)
          # ListedUnsuitable(m_start.unsuitable_threads_json)

\* get_subreddit_threads has returned content.
ReturnedContent == m_pc = "returned" /\ content # NoContent

C15_AsStated ==
    ReturnedContent =>
        content.thread_id \notin ListedUnsuitable(m_start.unsuitable_threads_json)

\* The part of C15 the code keeps: the non-storymode runs.
C15_NonStorymode ==
    ReturnedContent /\ m_mode # "storymode" =>
        content.thread_id \notin ListedUnsuitable(m_start.unsuitable_threads_json)

\* A storymode run returns the post of a thread that unsuitable_threads.json
\* listed when the run started.
C15_Witness ==
    /\ ReturnedContent
    /\ m_mode = "storymode"
    /\ content.thread_id \in ListedUnsuitable(m_start.unsuitable_threads_json)

\* C16: a used_comments.json, unsuitable_threads.json or videos.json that
\* cannot be parsed or holds the wrong type is read as empty, and no call of
\* get_subreddit_threads (get_subreddit_undone and check_done included)
\* raises because of it.
C16_AsStated == m_outcome # "raised"

\* get_subreddit_undone raised on a videos.json that json.load cannot parse:
\* the run ended there, after used_comments.json was reset to an empty dict.
C16_Witness ==
    /\ m_pc = "ended"
    /\ m_outcome = "raised"
    /\ videos_json.kind = "corrupt"
    /\ used_comments_json = DictFile(<<>>)

\* C19: every thread id added to the list unsuitable_thread_ids during a
\* run, by _save_unsuitable_thread_id or by get_subreddit_undone, is in
\* unsuitable_threads.json once the step that added it is over, and when
\* get_subreddit_threads returns; runs in which a write failed aside.
C19_AsStated ==
    m_pc \in {"picked", "returned"} /\ m_outcome = "none" =>
        Range(unsuitable_thread_ids) \subseteq ListedUnsuitable(unsuitable_threads_json)

\* get_subreddit_threads returns content for a thread, no write failed, and
\* the list unsuitable_thread_ids holds an id that get_subreddit_undone
\* appended and that unsuitable_threads.json does not list.
C19_Witness ==
    /\ ReturnedContent
    /\ m_outcome = "none"
    /\ m_post_id = NoId
    /\ Range(unsuitable_thread_ids) \ ListedUnsuitable(unsuitable_threads_json) # {}
    /\ content.thread_id \notin Range(unsuitable_thread_ids)

\* C20: a write of unsuitable_threads.json or of used_comments.json that
\* fails is reported and get_subreddit_threads still returns content or
\* None: it does not raise.
C20_AsStated == m_outcome # "write_raised"

\* The dump of lines 659-661 raised: used_comments.json had been loaded as a
\* dict, the comments were selected, and the run ended without a return.
C20_Witness ==
    /\ m_pc = "ended"
    /\ m_outcome = "write_raised"
    /\ used_comments_json.kind = "dict"
    /\ content = NoContent

\* The part of C20 the code keeps: a failed write of unsuitable_threads.json
\* is reported and get_subreddit_threads returns.
C20_UnsuitableWriteReported ==
    m_outcome = "write_reported" => m_pc \in {"picked", "returned"}

\* The lists of identifiers a store file holds.
IdLists(file) ==
    IF file.kind = "list" THEN {file.list}
    ELSE IF file.kind = "dict" THEN {file.dict[t] : t \in DOMAIN file.dict}
    ELSE {}

Ascending(l) == \A i \in 1..(Len(l) - 1) : l[i] <= l[i + 1]
NoDuplicate(l) == \A i, j \in 1..Len(l) : l[i] = l[j] => i = j

\* C25 as stated: every identifier list of used_comments.json and of
\* unsuitable_threads.json, as the program wrote it, is sorted in ascending
\* order and holds no identifier twice.
C25_AsStated ==
    \A l \in IdLists(used_comments_json) \cup IdLists(unsuitable_threads_json) :
        Ascending(l) /\ NoDuplicate(l)

\* C25's case: a run whose unsuitable_threads.json held no identifier twice
\* when it started has rewritten the file with an identifier listed twice.
C25_Witness ==
    /\ m_start # NoStart
    /\ unsuitable_threads_json # m_start.unsuitable_threads_json
    /\ \A l \in IdLists(m_start.unsuitable_threads_json) : NoDuplicate(l)
    /\ \E l \in IdLists(unsuitable_threads_json) : ~NoDuplicate(l)

\* The part of C25 the code keeps: every list written is in ascending order
\* and no list of used_comments.json holds an identifier twice.
C25_SortedAndUsedDistinct ==
    /\ \A l \in IdLists(used_comments_json) : Ascending(l) /\ NoDuplicate(l)
    /\ \A l \in IdLists(unsuitable_threads_json) : Ascending(l)


\* C26: the list of videos.json gains a thread only in the step in which
\* make_final_video reaches save_data after the render, and it gains the
\* thread of the content rendered; a run that ends in a failed render or
\* stage, with no post, or with an exception leaves the list as it was.
C26_SavedOnlyAfterRender ==
    [][/\ ListedVideos(videos_json') # ListedVideos(videos_json) =>
             /\ m_pc = "returned"
             /\ content # NoContent
             /\ m_outcome' = "rendered"
             /\ ListedVideos(videos_json') =
                    ListedVideos(videos_json) \cup {content.thread_id}
       /\ (m_pc' = "ended" /\ m_pc # "ended" /\ m_outcome' # "rendered") =>
             ListedVideos(videos_json') = ListedVideos(videos_json)]_vars

\* C26's case: a run whose render failed left videos.json without its
\* thread, and an earlier run had saved another thread.
C26_Witness ==
    /\ m_pc = "ended"
    /\ m_outcome = "render_failed"
    /\ content # NoContent
    /\ content.thread_id \notin ListedVideos(videos_json)
    /\ ListedVideos(videos_json) # {}


(***************************************************************************)
(* Specifications                                                          *)
(***************************************************************************)
InitParser == ParserInit /\ TimelineIdle /\ SuitIdle /\ BfsIdle /\ MainIdle /\ UndoneIdle /\ RaceIdle /\ TtsIdle /\ RetryIdle
SpecParser == InitParser /\ [][ParserNext]_vars

InitTimeline == TimelineInit /\ ParserIdle /\ SuitIdle /\ BfsIdle /\ MainIdle /\ UndoneIdle /\ RaceIdle /\ TtsIdle /\ RetryIdle
SpecTimeline == InitTimeline /\ [][TimelineNext]_vars

InitSuit == SuitInit /\ ParserIdle /\ TimelineIdle /\ BfsIdle /\ MainIdle /\ UndoneIdle /\ RaceIdle /\ TtsIdle /\ RetryIdle
SpecSuit == InitSuit /\ [][SuitNext]_vars

InitBfs == BfsInit /\ ParserIdle /\ TimelineIdle /\ SuitIdle /\ MainIdle /\ UndoneIdle /\ RaceIdle /\ TtsIdle /\ RetryIdle
SpecBfs == InitBfs /\ [][BfsNext]_vars

\* The search runs to its end: each pass of the while is followed by the next.
SpecBfsFair == InitBfs /\ [][BfsNext]_vars /\ WF_vars(BfsNext)

InitMain == MainInit /\ ParserIdle /\ TimelineIdle /\ MainSwearWords /\ BfsIdle /\ UndoneIdle /\ RaceIdle /\ TtsIdle /\ RetryIdle
SpecMain == InitMain /\ [][MainNext]_vars

\* Each call of get_subreddit_undone returns or calls itself: the listing
\* subreddit.top returns is finite and the loop over it ends.
\* The two processes are scheduled by the operating system in any order.
InitRace == RaceInit /\ ParserIdle /\ TimelineIdle /\ SuitIdle /\ BfsIdle /\ MainIdle /\ UndoneIdle /\ TtsIdle /\ RetryIdle
SpecRace == InitRace /\ [][RaceNext]_vars

InitRetry == RetryInit /\ ParserIdle /\ TimelineIdle /\ MainSwearWords /\ BfsIdle /\ MainIdle /\ UndoneIdle /\ RaceIdle /\ TtsIdle
SpecRetry == InitRetry /\ [][RetryNext]_vars

InitTts == TtsInit /\ ParserIdle /\ TimelineIdle /\ SuitIdle /\ BfsIdle /\ MainIdle /\ UndoneIdle /\ RaceIdle /\ RetryIdle
SpecTts == InitTts /\ [][TtsNext]_vars

InitUndone == UndoneInit /\ ParserIdle /\ TimelineIdle /\ SuitIdle /\ BfsIdle /\ MainIdle /\ RaceIdle /\ TtsIdle /\ RetryIdle
SpecUndone == InitUndone /\ [][UndoneNext]_vars /\ WF_vars(UndoneNext)

====
